---- MODULE Spec2Model ----
(***************************************************************************)
(* A model of the catalog ingestion pipeline (CatalogService), the vector  *)
(* store's upsert (ProductRepository) and the haircare recommendation      *)
(* strategy (HairCareStrategy with the OpenAI text-generation adapter).    *)
(*                                                                         *)
(* JavaScript strings that the code inspects (category, image, price) are  *)
(* sequences of one-character strings, so toLowerCase() and includes() are *)
(* computed; timestamps (createdAt, updatedAt) and log lines are left out. *)
(***************************************************************************)
EXTENDS Integers, Sequences, FiniteSets, TLC

VARIABLES
    pc,                 \* position of embedAndStoreProducts
    products,           \* const products = await fetchProductsFromShopify()
    i,                  \* outer loop index (0-based, as in the code)
    j,                  \* inner loop index (0-based)
    errors,             \* const errors: string[]
    successCount,       \* let successCount
    result,             \* the EmbedProductsResponseDto returned
    store,              \* the "Product" table: a sequence of rows
    embedCalls,         \* per batch: embeddings.create calls made (saturating)
    embedFails,         \* per batch: embeddings.create calls that threw (saturating)
    upsertIssued,       \* per product position: $executeRaw statements issued
    lastReturned,       \* the vector returned for the product handled last
    lastPos,            \* catalog position of the product handled last (0: none)
    badVectorAt,        \* positions whose returned vector was not a usable one
    dbFailedAt,         \* positions whose store write threw
    inFlight,           \* embeddings.create calls issued and not yet settled
    lastCall,           \* the last repository upsert that resolved (its
                        \* arguments), and whether a call after it rejected
    upsertLog,          \* per shopifyId: the embedding of its last resolved
                        \* upsert, and whether one replaced a different one
    sPc,                \* position of HairCareStrategy.generateRecommendation
    sInput,             \* its products argument
    routine,            \* baseRecommendation.routine
    stepIdx,            \* the step the for...of loop is at (1-based)
    aiLog,              \* per step: how generateChatCompletion ended, and
                        \* what chat.completions.create had settled with
    recommendation,     \* the RecommendationResponse returned
    lastRead,           \* the read of the table that has just returned to
                        \* its caller: the call, its queries and the outcome
    fPc,                \* position of fetchAllProducts
    maxProducts,        \* its maxProducts argument
    allProducts,        \* const allProducts: Product[]
    hasNextPage,        \* let hasNextPage
    endCursor,          \* let endCursor
    pagesRequested,     \* fetchProducts calls made by fetchAllProducts
    fetched,            \* the list fetchAllProducts returned
    lastSearch,         \* the search call that has just ended: its arguments,
                        \* the calls it made, what it threw or returned
    rec,                \* RecommendationService.generateRecommendation: its
                        \* position, how each call it made ended, its outcome
    lastGuard,          \* the request ApiKeyGuard has just decided: the
                        \* configured key, the headers, the decision
    lastTemplate,       \* the last call of the base class's
                        \* generateRecommendation: the step configurations,
                        \* the products, the routine returned
    lastFilter,         \* the last call of the base class's
                        \* filterProductsForStep: its arguments and result
    run,                \* which ingestion run this is, the table it found,
                        \* and what an interrupted run had fetched and written
    lastPair,           \* the last comparison of upserts made in two orders,
                        \* or of runs over one catalog in two orders
    lastEmbed,          \* the generateEmbeddings call that has just ended: the
                        \* number of texts, the API outcome and how it ended
    overlap             \* two runs under way at once: the table they found,
                        \* their snapshots and how far each has written

ingestVars == <<pc, products, i, j, errors, successCount, result, embedCalls,
                embedFails, upsertIssued, lastReturned, lastPos, badVectorAt,
                dbFailedAt, inFlight>>

storeVars == <<store, lastCall, upsertLog>>

strategyVars == <<sPc, sInput, routine, stepIdx, aiLog, recommendation>>

readVars == <<lastRead>>

fetchVars == <<fPc, maxProducts, allProducts, hasNextPage, endCursor,
               pagesRequested, fetched>>

searchVars == <<lastSearch>>

recVars == <<rec>>

guardVars == <<lastGuard>>

templateVars == <<lastTemplate>>

filterVars == <<lastFilter>>

runVars == <<run>>

pairVars == <<lastPair>>

embedBatchVars == <<lastEmbed>>

overlapVars == <<overlap>>

moreVars == <<filterVars, runVars, pairVars, embedBatchVars, overlapVars>>

callVars == <<readVars, fetchVars, searchVars, recVars, guardVars,
              templateVars>>

laterVars == <<callVars, moreVars>>

vars == <<ingestVars, storeVars, strategyVars, laterVars>>

\* what the reads of the table leave alone
outsideRead == <<ingestVars, lastCall, upsertLog, strategyVars, fetchVars,
                 searchVars, recVars, guardVars, templateVars,
                 moreVars>>

\* what the paginated fetch leaves alone
outsideFetch == <<ingestVars, storeVars, strategyVars, readVars, searchVars,
                  recVars, guardVars, templateVars,
                  moreVars>>

\* what the product search leaves alone
outsideSearch == <<ingestVars, storeVars, strategyVars, readVars, fetchVars,
                   recVars, guardVars, templateVars,
                   moreVars>>

\* what the recommendation service leaves alone
outsideRec == <<ingestVars, storeVars, strategyVars, readVars, fetchVars,
                searchVars, guardVars, templateVars,
                moreVars>>

\* what the API key guard leaves alone
outsideGuard == <<ingestVars, storeVars, strategyVars, readVars, fetchVars,
                  searchVars, recVars, templateVars,
                  moreVars>>

\* what the base class's generateRecommendation leaves alone
outsideTemplate == <<ingestVars, storeVars, strategyVars, readVars, fetchVars,
                     searchVars, recVars, guardVars,
                     moreVars>>

\* what the base class's filterProductsForStep leaves alone
outsideFilter == <<ingestVars, storeVars, strategyVars, callVars, runVars,
                   pairVars, embedBatchVars, overlapVars>>

\* what an interruption and a new start leave alone, besides the table
outsideRun == <<lastCall, upsertLog, strategyVars, callVars, filterVars,
                pairVars, embedBatchVars, overlapVars>>

\* what the comparisons of upsert orders leave alone
outsidePair == <<ingestVars, storeVars, strategyVars, callVars, filterVars,
                 runVars, embedBatchVars, overlapVars>>

\* what generateEmbeddings leaves alone
outsideEmbed == <<ingestVars, storeVars, strategyVars, callVars, filterVars,
                  runVars, pairVars, overlapVars>>

\* what two overlapping runs leave alone, besides the table
outsideOverlap == <<ingestVars, lastCall, upsertLog, strategyVars, callVars,
                    filterVars, runVars, pairVars, embedBatchVars>>

-----------------------------------------------------------------------------
(* Bounds of the model *)

MaxProducts == 21       \* largest catalog fetched
MaxFaults == 1          \* per-product anomalies (bad vector, failed write) per run
MaxEmbedCalls == 3      \* the per-batch call counters saturate here
MaxIds == 2             \* distinct shopifyIds offered to the repository
MaxInput == 3           \* longest product list handed to the strategy
MaxRows == 3            \* distinct products in the table the readers query
MaxCeiling == 4         \* largest maxProducts handed to fetchAllProducts
MaxPageLen == 3         \* most products on one page of the shop's listing
MaxPages == 4           \* pages requested in one fetchAllProducts call
MaxTexts == 2           \* most texts in one generateEmbeddings call
MaxFiltered == 2        \* longest product list handed to filterProductsForStep

(* Program constants *)

batchSize == 20

-----------------------------------------------------------------------------
(* JavaScript values *)

Null == <<"<null>">>            \* null / SQL NULL for a string-valued field
EmptyStr == <<>>                \* ''

Min(a, b) == IF a < b THEN a ELSE b

\* a ?? b
NullishCoalesce(a, b) == IF a = Null THEN b ELSE a

\* SQL COALESCE(a, b)
SqlCoalesce(a, b) == IF a = Null THEN b ELSE a

\* a value of embeddingsResponse.data[j]?.embedding
JsArray(v) == [kind |-> "array", val |-> v]
JsNull == [kind |-> "null", val |-> <<>>]
JsUndefined == [kind |-> "undefined", val |-> <<>>]
JsObject == [kind |-> "object", val |-> <<>>]       \* a non-array, truthy value
NotReturned == [kind |-> "none", val |-> <<>>]      \* nothing returned so far

Truthy(e) == e.kind \in {"array", "object"}
IsArray(e) == e.kind = "array"

Undef == <<"<undefined>">>      \* undefined for a string-valued field

\* truthiness of a string | null | undefined
StrTruthy(s) == s # Undef /\ s # Null /\ s # EmptyStr

\* s || ''
OrEmpty(s) == IF StrTruthy(s) THEN s ELSE EmptyStr

UpperCase == <<"A", "B", "C", "D", "E", "F", "G", "H", "I", "J", "K", "L", "M",
               "N", "O", "P", "Q", "R", "S", "T", "U", "V", "W", "X", "Y", "Z">>
LowerCase == <<"a", "b", "c", "d", "e", "f", "g", "h", "i", "j", "k", "l", "m",
               "n", "o", "p", "q", "r", "s", "t", "u", "v", "w", "x", "y", "z">>

LowerChar(c) ==
    IF \E k \in DOMAIN UpperCase : UpperCase[k] = c
    THEN LowerCase[CHOOSE k \in DOMAIN UpperCase : UpperCase[k] = c]
    ELSE c

\* s.toLowerCase()
ToLowerCase(s) == [k \in DOMAIN s |-> LowerChar(s[k])]

\* s.includes(sub)
Includes(s, sub) ==
    \E k \in 0..(Len(s) - Len(sub)) : SubSeq(s, k + 1, k + Len(sub)) = sub

IsSpace(c) == c \in {" ", "\n", "\t"}

\* s.trim()
RECURSIVE Trim(_)
Trim(s) ==
    IF s = <<>> THEN s
    ELSE IF IsSpace(s[1]) THEN Trim(Tail(s))
    ELSE IF IsSpace(s[Len(s)]) THEN Trim(SubSeq(s, 1, Len(s) - 1))
    ELSE s

-----------------------------------------------------------------------------
(* The catalog *)

Shampoo == <<"S", "h", "a", "m", "p", "o", "o">>
Conditioner == <<"C", "o", "n", "d", "i", "t", "i", "o", "n", "e", "r">>
Treatment == <<"T", "r", "e", "a", "t", "m", "e", "n", "t">>
ImageUrl == <<"u", "r", "l">>
OtherImageUrl == <<"u", "r", "l", "2">>
PriceStr == <<"9", ".", "5">>
OtherPriceStr == <<"7">>
TagStr == <<"t", "a", "g">>

CatalogCategories == <<Shampoo, Conditioner, Treatment, EmptyStr>>

\* What transformShopifyProducts yields for the k-th node of the listing:
\* category is a string ('' when the node has no productType), image and
\* price are a string or null, tags an array.
CatalogProduct(k) ==
    [shopifyId   |-> k,
     title       |-> <<"Product", k>>,
     description |-> <<"Description", k>>,
     tags        |-> IF k % 2 = 0 THEN <<>> ELSE <<TagStr>>,
     category    |-> CatalogCategories[(k % 4) + 1],
     image       |-> IF k % 3 = 0 THEN Null ELSE ImageUrl,
     price       |-> IF k % 5 = 0 THEN Null ELSE PriceStr]

Catalog(n) == [k \in 1..n |-> CatalogProduct(k)]

\* Catalog sizes tried: around the batch boundaries, and the largest.
CatalogSizes ==
    {n \in 0..MaxProducts : n <= 2 \/ n % batchSize <= 1 \/ n = MaxProducts}

\* The vector the embedding model computes for a product's text.
EmbeddingOf(product) == <<product.shopifyId % 2, 1>>

-----------------------------------------------------------------------------
(* ProductRepository.upsert / the INSERT ... ON CONFLICT statement *)

\* The row proposed for insertion (VALUES (...), i.e. EXCLUDED).
ExcludedRow(product, embedding) ==
    [shopifyId   |-> product.shopifyId,
     title       |-> product.title,
     description |-> product.description,
     tags        |-> product.tags,
     category    |-> NullishCoalesce(product.category, EmptyStr),
     image       |-> NullishCoalesce(product.image, EmptyStr),
     price       |-> NullishCoalesce(product.price, EmptyStr),
     embedding   |-> embedding]

\* A DO UPDATE clause that leaves the embedding as it was.
UpdatedRowKeepsEmbedding(row, product, embedding) ==
    [row EXCEPT !.title = product.title,
                !.description = product.description,
                !.tags = product.tags]

\* A DO UPDATE clause that sets the embedding only.
UpdatedRowEmbeddingOnly(row, product, embedding) ==
    [row EXCEPT !.embedding = embedding]

\* ON CONFLICT ("shopifyId") DO UPDATE SET ...
UpdatedRow(row, product, embedding) ==
    LET excluded == ExcludedRow(product, embedding)
    IN [row EXCEPT
          !.title = excluded.title,
          !.description = excluded.description,
          !.tags = excluded.tags,
          !.category = SqlCoalesce(excluded.category,
                                   NullishCoalesce(product.category, EmptyStr)),
          !.image = SqlCoalesce(excluded.image,
                                NullishCoalesce(product.image, EmptyStr)),
          !.price = SqlCoalesce(excluded.price,
                                NullishCoalesce(product.price, EmptyStr)),
          !.embedding = excluded.embedding]

RowsOf(rows, id) == {k \in DOMAIN rows : rows[k].shopifyId = id}

\* A plain INSERT: the statement without its ON CONFLICT clause.
UpsertAlwaysInserts(rows, product, embedding) ==
    Append(rows, ExcludedRow(product, embedding))

Upsert(rows, product, embedding) ==
    IF RowsOf(rows, product.shopifyId) = {}
    THEN Append(rows, ExcludedRow(product, embedding))
    ELSE [k \in DOMAIN rows |->
            IF rows[k].shopifyId = product.shopifyId
            THEN UpdatedRow(rows[k], product, embedding)
            ELSE rows[k]]

\* Products and vectors offered to the repository
Vectors == {<<1, 0>>, <<0, 1>>}

\* title/description/tags and the optional fields vary independently
RepoVariants ==
    {[v |-> 1, category |-> Shampoo, image |-> ImageUrl, price |-> PriceStr],
     [v |-> 2, category |-> Conditioner, image |-> OtherImageUrl,
      price |-> OtherPriceStr],
     [v |-> 2, category |-> Null, image |-> Null, price |-> Null],
     [v |-> 1, category |-> EmptyStr, image |-> EmptyStr, price |-> EmptyStr]}

RepoProducts ==
    {[shopifyId   |-> id,
      title       |-> <<"Title", o.v>>,
      description |-> <<"Description", o.v>>,
      tags        |-> IF o.v = 1 THEN <<TagStr>> ELSE <<>>,
      category    |-> o.category,
      image       |-> o.image,
      price       |-> o.price] : id \in 1..MaxIds, o \in RepoVariants}

NoVector == <<>>

NoCall == [made |-> FALSE, threw |-> FALSE, product |-> CatalogProduct(0),
           embedding |-> NoVector]

NoLog == [last |-> NoVector, overwritten |-> FALSE]

InitStore ==
    /\ store = <<>>
    /\ lastCall = NoCall
    /\ upsertLog = [id \in 1..MaxIds |-> NoLog]

\* await this.prisma.$executeRaw`...` resolves
RepoUpsert ==
    /\ \E product \in RepoProducts, embedding \in Vectors :
         /\ store' = Upsert(store, product, embedding)
         /\ lastCall' = [made |-> TRUE, threw |-> FALSE, product |-> product,
                         embedding |-> embedding]
         /\ upsertLog' = [upsertLog EXCEPT
                            ![product.shopifyId] =
                                [last |-> embedding,
                                 overwritten |-> @.overwritten
                                     \/ (@.last # NoVector /\ @.last # embedding)]]
    /\ UNCHANGED <<ingestVars, strategyVars, laterVars>>

\* ... or rejects: catch (error) { log; throw error }
RepoUpsertThrows ==
    /\ lastCall' = [lastCall EXCEPT !.made = TRUE, !.threw = TRUE]
    /\ UNCHANGED <<store, upsertLog>>
    /\ UNCHANGED <<ingestVars, strategyVars, laterVars>>

UpsertNext ==
    \/ RepoUpsert
    \/ RepoUpsertThrows

-----------------------------------------------------------------------------
(* The recommendation strategies *)

NoCriterion == [defined |-> FALSE, items |-> <<>>]

NoCategoryFilter ==
    [present |-> FALSE, equals |-> Undef, contains |-> Undef, in |-> NoCriterion]

NoTagFilter ==
    [present |-> FALSE, hasAny |-> NoCriterion, hasAll |-> NoCriterion,
     excludes |-> NoCriterion]

ShampooLit == <<"s", "h", "a", "m", "p", "o", "o">>
ConditionerLit == <<"c", "o", "n", "d", "i", "t", "i", "o", "n", "e", "r">>

\* HairCareStrategy.getStepConfigurations()
HairCareStepConfigurations ==
    <<[name |-> "Cleansing", order |-> 1,
       filter |-> [category |-> [NoCategoryFilter EXCEPT !.present = TRUE,
                                                         !.contains = ShampooLit],
                   tags |-> NoTagFilter]],
      [name |-> "Conditioning", order |-> 2,
       filter |-> [category |-> [NoCategoryFilter EXCEPT !.present = TRUE,
                                                         !.contains = ConditionerLit],
                   tags |-> NoTagFilter]],
      [name |-> "Treatment & Styling", order |-> 3,
       filter |-> [category |-> [NoCategoryFilter EXCEPT !.present = TRUE],
                   tags |-> NoTagFilter]]>>

LowerAll(list) == [k \in DOMAIN list |-> ToLowerCase(list[k])]

Contains(list, x) == \E k \in DOMAIN list : list[k] = x

\* the predicate of BaseRecommendationStrategy.filterProductsForStep
BaseKeeps(product, filter) ==
    /\ filter.category.present =>
         LET category == ToLowerCase(OrEmpty(product.category))
             c == filter.category
         IN /\ ~(StrTruthy(c.equals) /\ category # ToLowerCase(c.equals))
            /\ ~(StrTruthy(c.contains)
                 /\ ~Includes(category, ToLowerCase(c.contains)))
            /\ ~(c.in.defined
                 /\ ~\E k \in DOMAIN c.in.items :
                        category = ToLowerCase(c.in.items[k]))
    /\ filter.tags.present =>
         LET productTags == LowerAll(product.tags)
             t == filter.tags
         IN /\ ~(t.hasAny.defined
                 /\ ~\E k \in DOMAIN t.hasAny.items :
                        Contains(productTags, ToLowerCase(t.hasAny.items[k])))
            /\ ~(t.hasAll.defined
                 /\ ~\A k \in DOMAIN t.hasAll.items :
                        Contains(productTags, ToLowerCase(t.hasAll.items[k])))
            /\ ~(t.excludes.defined
                 /\ \E k \in DOMAIN t.excludes.items :
                        Contains(productTags, ToLowerCase(t.excludes.items[k])))

BaseFilterProductsForStep(list, stepConfig) ==
    SelectSeq(list, LAMBDA product : BaseKeeps(product, stepConfig.filter))

\* A special case that excludes nothing.
TreatmentKeepsAll(product) == TRUE

\* the predicate of the 'Treatment & Styling' special case
TreatmentKeeps(product) ==
    LET category == ToLowerCase(OrEmpty(product.category))
    IN ~Includes(category, ShampooLit) /\ ~Includes(category, ConditionerLit)

\* HairCareStrategy.filterProductsForStep
FilterProductsForStep(list, stepConfig) ==
    IF stepConfig.name = "Treatment & Styling"
    THEN SelectSeq(list, TreatmentKeeps)
    ELSE BaseFilterProductsForStep(list, stepConfig)

\* const routine = steps.map(stepConfig => ({...})), filtered[s] being what
\* the strategy's filterProductsForStep returns for steps[s]
Routine(steps, filtered) ==
    [s \in DOMAIN steps |->
        [name |-> steps[s].name,
         order |-> steps[s].order,
         description |-> EmptyStr,
         products |-> filtered[s]]]

\* BaseRecommendationStrategy.generateRecommendation, called on the haircare
\* strategy
BaseRoutine(list) ==
    Routine(HairCareStepConfigurations,
            [s \in DOMAIN HairCareStepConfigurations |->
                FilterProductsForStep(list, HairCareStepConfigurations[s])])

\* `Complete the ${step.name} step using the recommended products.`
FallbackDescription(stepName) ==
    <<"Complete the ", stepName, " step using the recommended products.">>

\* What openai.chat.completions.create can do: reject, or resolve with a
\* message content of null, '', blanks, or text (with or without blanks around).
RawCompletions ==
    {[threw |-> TRUE, content |-> Undef],
     [threw |-> FALSE, content |-> Undef],
     [threw |-> FALSE, content |-> EmptyStr],
     [threw |-> FALSE, content |-> <<" ", " ">>],
     [threw |-> FALSE, content |-> <<" ", "o", "k", " ">>],
     [threw |-> FALSE, content |-> <<"H", "i">>]}

AdapterThrew == [threw |-> TRUE, content |-> Undef]

\* An adapter that hands the content back as it came: no trim() before the
\* emptiness test.
GenerateChatCompletionUntrimmed(raw) ==
    IF raw.threw \/ ~StrTruthy(raw.content)
    THEN AdapterThrew
    ELSE [threw |-> FALSE, content |-> raw.content]

\* OpenAIAIService.generateChatCompletion
GenerateChatCompletion(raw) ==
    IF raw.threw
    THEN AdapterThrew
    ELSE LET content == IF raw.content = Undef THEN Undef ELSE Trim(raw.content)
         IN IF ~StrTruthy(content)
            THEN AdapterThrew
            ELSE [threw |-> FALSE, content |-> content]

\* A catch block that leaves the description as the base routine set it.
CatchDescriptionLeftEmpty(stepName) == EmptyStr

\* catch (error) { step.description = `Complete the ...` }
CatchDescription(stepName) == FallbackDescription(stepName)

\* step.description after the try/catch around the adapter call
StepDescription(stepName, outcome) ==
    IF outcome.threw
    THEN CatchDescription(stepName)
    ELSE IF StrTruthy(outcome.content)
         THEN outcome.content
         ELSE FallbackDescription(stepName)

StrategyCategories ==
    {Null, Shampoo, <<"S", "H", "A", "M", "P", "O", "O">>, Conditioner,
     <<"S", "h", "a", "m", "p", "o", "o", " ", "&", " ",
       "C", "o", "n", "d", "i", "t", "i", "o", "n", "e", "r">>,
     Treatment}

StrategyProduct(k, category) ==
    [shopifyId   |-> k,
     title       |-> <<"Product", k>>,
     description |-> <<"Description", k>>,
     tags        |-> <<TagStr>>,
     category    |-> category,
     image       |-> Null,
     price       |-> Null]

InputLists ==
    UNION {{[k \in 1..n |-> StrategyProduct(k, cats[k])] :
                cats \in [1..n -> StrategyCategories]} : n \in 0..MaxInput}

NoRecommendation == [message |-> "none", routine |-> <<>>, industry |-> "none"]

InitStrategy ==
    /\ sPc = "idle"
    /\ sInput = <<>>
    /\ routine = <<>>
    /\ stepIdx = 0
    /\ aiLog = <<>>
    /\ recommendation = NoRecommendation

\* const baseRecommendation = await super.generateRecommendation(profile, products)
BuildBase ==
    /\ sPc = "idle"
    /\ \E list \in InputLists :
         /\ sInput' = list
         /\ routine' = BaseRoutine(list)
    /\ stepIdx' = 1
    /\ sPc' = "describe"
    /\ UNCHANGED <<aiLog, recommendation>>
    /\ UNCHANGED <<ingestVars, storeVars, laterVars>>

\* one iteration of for (const step of baseRecommendation.routine)
DescribeStep ==
    /\ sPc = "describe"
    /\ stepIdx <= Len(routine)
    /\ \E raw \in RawCompletions :
         LET outcome == GenerateChatCompletion(raw)
         IN /\ routine' = [routine EXCEPT
                             ![stepIdx].description =
                                 StepDescription(routine[stepIdx].name, outcome)]
            /\ aiLog' = Append(aiLog, [threw |-> outcome.threw,
                                        content |-> outcome.content,
                                        raw |-> raw])
    /\ stepIdx' = stepIdx + 1
    /\ UNCHANGED <<sPc, sInput, recommendation>>
    /\ UNCHANGED <<ingestVars, storeVars, laterVars>>

\* return baseRecommendation
ReturnRecommendation ==
    /\ sPc = "describe"
    /\ stepIdx > Len(routine)
    /\ recommendation' = [message |-> "Recommendation generated successfully",
                          routine |-> routine,
                          industry |-> "haircare"]
    /\ sPc' = "returned"
    /\ UNCHANGED <<sInput, routine, stepIdx, aiLog>>
    /\ UNCHANGED <<ingestVars, storeVars, laterVars>>

StrategyNext ==
    \/ BuildBase
    \/ DescribeStep
    \/ ReturnRecommendation

\* Lists getStepConfigurations() of a strategy can return: the haircare
\* configurations, any of them, in any array order.
StepConfigurationLists ==
    LET all == HairCareStepConfigurations
        picks == UNION {[1..n -> DOMAIN all] : n \in 0..Len(all)}
    IN {[k \in DOMAIN p |-> all[p[k]]] :
           p \in {q \in picks : \A a, b \in DOMAIN q : a # b => q[a] # q[b]}}

NoTemplate ==
    [op |-> "none", steps |-> <<>>, products |-> <<>>, routine |-> <<>>,
     message |-> "none"]

InitTemplate == lastTemplate = NoTemplate

\* BaseRecommendationStrategy.generateRecommendation on a strategy that keeps
\* the default filterProductsForStep
TemplateGenerate ==
    /\ lastTemplate = NoTemplate
    /\ \E steps \in StepConfigurationLists, list \in InputLists :
         lastTemplate' =
             [op |-> "generateRecommendation", steps |-> steps,
              products |-> list,
              routine |-> Routine(steps,
                                  [s \in DOMAIN steps |->
                                      BaseFilterProductsForStep(list, steps[s])]),
              message |-> "Recommendation generated successfully"]
    /\ UNCHANGED outsideTemplate

\* The caller has the response; the next call can be made.
TemplateTaken ==
    /\ lastTemplate # NoTemplate
    /\ lastTemplate' = NoTemplate
    /\ UNCHANGED outsideTemplate

TemplateNext ==
    \/ TemplateGenerate
    \/ TemplateTaken

-----------------------------------------------------------------------------
(* ProductRepository's and CatalogService's reads of the "Product" table *)

Dot(a, b) == a[1] * b[1] + a[2] * b[2]

\* the length of a vector (the vectors used have whole lengths)
Norm(v) == CHOOSE n \in 0..Dot(v, v) : n * n = Dot(v, v)

\* The numbers the statement computes are fractions num/den with den > 0.
Frac(n, d) == [num |-> n, den |-> d]

FracLeq(x, y) == x.num * y.den <= y.num * x.den

\* 1 - x
OneMinus(x) == Frac(x.den - x.num, x.den)

\* embedding <=> $q: pgvector's cosine distance, 1 - cos(a, q)
CosineDistance(a, q) == OneMinus(Frac(Dot(a, q), Norm(a) * Norm(q)))

\* ORDER BY ... DESC: the farthest rows first.
OrderByDistanceDescending(rows, q) ==
    {p \in [DOMAIN rows -> DOMAIN rows] :
        /\ \A a, b \in DOMAIN rows : a # b => p[a] # p[b]
        /\ \A a, b \in DOMAIN rows :
             a < b => FracLeq(CosineDistance(rows[p[b]].embedding, q),
                              CosineDistance(rows[p[a]].embedding, q))}

\* ORDER BY embedding <=> $q: the orders the rows can come back in (rows at
\* the same distance in any order)
OrderByDistance(rows, q) ==
    {p \in [DOMAIN rows -> DOMAIN rows] :
        /\ \A a, b \in DOMAIN rows : a # b => p[a] # p[b]
        /\ \A a, b \in DOMAIN rows :
             a < b => FracLeq(CosineDistance(rows[p[a]].embedding, q),
                              CosineDistance(rows[p[b]].embedding, q))}

\* SELECT "shopifyId", ..., 1 - (embedding <=> $q) AS similarity
SimilarityRow(row, q) ==
    [shopifyId   |-> row.shopifyId,
     title       |-> row.title,
     description |-> row.description,
     tags        |-> row.tags,
     category    |-> row.category,
     image       |-> row.image,
     price       |-> row.price,
     similarity  |-> OneMinus(CosineDistance(row.embedding, q))]

\* The results the similarity statement can produce: LIMIT $limit of the rows
\* in one of the orders of ORDER BY.
SimilarityQuery(rows, q, limit) ==
    {[k \in 1..Min(limit, Len(rows)) |-> SimilarityRow(rows[p[k]], q)] :
        p \in OrderByDistance(rows, q)}

\* A guard that tests the length only when ids is not an array.
NoIdsOnlyNullish(ids) == ~Truthy(ids)

\* !ids || ids.length === 0
NoIds(ids) == ~Truthy(ids) \/ Len(ids.val) = 0

\* prisma.product.findMany({ where: { shopifyId: { in: ids } } })
FindMany(rows, ids) ==
    SelectSeq(rows, LAMBDA row : Contains(ids, row.shopifyId))

\* s || null
OrNull(s) == IF StrTruthy(s) THEN s ELSE Null

\* the fields findMany selects
SelectedFields(row) ==
    [shopifyId   |-> row.shopifyId,
     title       |-> row.title,
     description |-> row.description,
     tags        |-> row.tags,
     category    |-> row.category,
     image       |-> row.image,
     price       |-> row.price]

\* products.map((p) => ({ ...p, category: p.category || null, ... }))
ProductOf(row) ==
    [SelectedFields(row) EXCEPT !.category = OrNull(@), !.image = OrNull(@),
                                !.price = OrNull(@)]

\* Vectors stored and asked for; their lengths are 1 and 5.
StoredVectors == {<<1, 0>>, <<3, 4>>, <<-1, 0>>}
QueryVectors == {<<1, 0>>, <<4, 3>>}

\* limit arguments: LIMIT rejects a negative one
Limits == (-1)..(MaxRows + 1)

IdSequences ==
    UNION {[1..n -> 1..(MaxRows + 1)] : n \in 0..2}

\* ids arguments: null, undefined, or an array of ids, stored or not
IdArguments == {JsNull, JsUndefined} \cup {JsArray(ids) : ids \in IdSequences}

NoRead ==
    [op |-> "none", ids |-> JsUndefined, embedding |-> NoVector, limit |-> 0,
     queries |-> 0, threw |-> "none", rows |-> <<>>]

InitRead == lastRead = NoRead

\* A resolved upsert of a catalog product, between two reads.
TableUpsert ==
    /\ lastRead = NoRead
    /\ \E id \in 1..MaxRows, embedding \in StoredVectors :
         store' = Upsert(store, CatalogProduct(id), embedding)
    /\ UNCHANGED lastRead
    /\ UNCHANGED outsideRead

\* The caller has taken the result of its read and goes on.
ReadTaken ==
    /\ lastRead # NoRead
    /\ lastRead' = NoRead
    /\ UNCHANGED store
    /\ UNCHANGED outsideRead

\* ProductRepository.findBySimilarity: the statement resolves
FindBySimilarity ==
    /\ lastRead = NoRead
    /\ \E q \in QueryVectors, limit \in Limits :
         /\ limit >= 0
         /\ \E rows \in SimilarityQuery(store, q, limit) :
              lastRead' = [op |-> "findBySimilarity", ids |-> JsUndefined,
                           embedding |-> q, limit |-> limit, queries |-> 1,
                           threw |-> "none", rows |-> rows]
    /\ UNCHANGED store
    /\ UNCHANGED outsideRead

\* ... or rejects: catch (error) { throw new HttpException(...) }
FindBySimilarityThrows ==
    /\ lastRead = NoRead
    /\ \E q \in QueryVectors, limit \in Limits :
         lastRead' = [op |-> "findBySimilarity", ids |-> JsUndefined,
                      embedding |-> q, limit |-> limit, queries |-> 1,
                      threw |-> "Failed to search products", rows |-> <<>>]
    /\ UNCHANGED store
    /\ UNCHANGED outsideRead

\* what each reader returns for a row found: findByIds maps it, getProductsByIds
\* returns it as selected
RowReturned(op, row) ==
    IF op = "findByIds" THEN ProductOf(row) ELSE SelectedFields(row)

\* The outcome of a findMany by ids on the table behind the empty-input guard.
ReadByIds(op, table, ids, dbOk) ==
    IF NoIds(ids)
    THEN [op |-> op, ids |-> ids, embedding |-> NoVector, limit |-> 0,
          queries |-> 0, threw |-> "none", rows |-> <<>>]
    ELSE IF dbOk
         THEN [op |-> op, ids |-> ids, embedding |-> NoVector, limit |-> 0,
               queries |-> 1, threw |-> "none",
               rows |-> LET found == FindMany(table, ids.val)
                        IN [k \in DOMAIN found |-> RowReturned(op, found[k])]]
         ELSE [op |-> op, ids |-> ids, embedding |-> NoVector, limit |-> 0,
               queries |-> 1, threw |-> "Failed to fetch products",
               rows |-> <<>>]

\* ProductRepository.findByIds
FindByIds ==
    /\ lastRead = NoRead
    /\ \E ids \in IdArguments, dbOk \in BOOLEAN :
         lastRead' = ReadByIds("findByIds", store, ids, dbOk)
    /\ UNCHANGED store
    /\ UNCHANGED outsideRead

\* CatalogService.getProductsByIds
GetProductsByIds ==
    /\ lastRead = NoRead
    /\ \E ids \in IdArguments, dbOk \in BOOLEAN :
         lastRead' = ReadByIds("getProductsByIds", store, ids, dbOk)
    /\ UNCHANGED store
    /\ UNCHANGED outsideRead

ReadNext ==
    \/ TableUpsert
    \/ FindBySimilarity
    \/ FindBySimilarityThrows
    \/ FindByIds
    \/ GetProductsByIds
    \/ ReadTaken

-----------------------------------------------------------------------------
(* ShopifyService.fetchAllProducts *)

\* endCursor = null, and cursor: endCursor || undefined
NoCursor == 0

\* A return that forgets the slice.
SliceKeepsAll(list, start, end) == list

\* list.slice(start, end), for start, end >= 0
Slice(list, start, end) == SubSeq(list, start + 1, Min(end, Len(list)))

\* maxProducts arguments
Ceilings == 0..MaxCeiling

\* What fetchProducts resolves with for the page after `cursor`: n nodes
\* (transformed), whether the shop reports a further page, and the cursor of
\* the last node.
ProductsResponse(cursor, n, more) ==
    [products    |-> [k \in 1..n |-> CatalogProduct(cursor + k)],
     hasNextPage |-> more,
     endCursor   |-> cursor + n]

InitFetch ==
    /\ fPc = "idle"
    /\ maxProducts = 0
    /\ allProducts = <<>>
    /\ hasNextPage = FALSE
    /\ endCursor = NoCursor
    /\ pagesRequested = 0
    /\ fetched = <<>>

\* const allProducts = []; let hasNextPage = true; let endCursor = null;
FetchAllProducts ==
    /\ fPc = "idle"
    /\ \E ceiling \in Ceilings : maxProducts' = ceiling
    /\ allProducts' = <<>>
    /\ hasNextPage' = TRUE
    /\ endCursor' = NoCursor
    /\ fPc' = "while"
    /\ UNCHANGED <<pagesRequested, fetched>>
    /\ UNCHANGED outsideFetch

\* One iteration of while (hasNextPage && allProducts.length < maxProducts):
\* the page resolves
FetchPage ==
    /\ fPc = "while"
    /\ hasNextPage /\ Len(allProducts) < maxProducts
    /\ pagesRequested < MaxPages
    /\ \E n \in 0..MaxPageLen, more \in BOOLEAN :
         LET response == ProductsResponse(endCursor, n, more)
         IN /\ allProducts' = allProducts \o response.products
            /\ hasNextPage' = response.hasNextPage
            /\ endCursor' = response.endCursor
            /\ fPc' = IF Len(allProducts') >= maxProducts
                      THEN "after" ELSE "while"
    /\ pagesRequested' = pagesRequested + 1
    /\ UNCHANGED <<maxProducts, fetched>>
    /\ UNCHANGED outsideFetch

\* ... or fetchProducts throws its HttpException, which nothing here catches
FetchPageThrows ==
    /\ fPc = "while"
    /\ hasNextPage /\ Len(allProducts) < maxProducts
    /\ pagesRequested < MaxPages
    /\ pagesRequested' = pagesRequested + 1
    /\ fPc' = "failed"
    /\ UNCHANGED <<maxProducts, allProducts, hasNextPage, endCursor, fetched>>
    /\ UNCHANGED outsideFetch

\* the while condition is false
FetchLoopExit ==
    /\ fPc = "while"
    /\ ~(hasNextPage /\ Len(allProducts) < maxProducts)
    /\ fPc' = "after"
    /\ UNCHANGED <<maxProducts, allProducts, hasNextPage, endCursor,
                   pagesRequested, fetched>>
    /\ UNCHANGED outsideFetch

\* return allProducts.slice(0, maxProducts)
FetchReturn ==
    /\ fPc = "after"
    /\ fetched' = Slice(allProducts, 0, maxProducts)
    /\ fPc' = "returned"
    /\ UNCHANGED <<maxProducts, allProducts, hasNextPage, endCursor,
                   pagesRequested>>
    /\ UNCHANGED outsideFetch

FetchNext ==
    \/ FetchAllProducts
    \/ FetchPage
    \/ FetchPageThrows
    \/ FetchLoopExit
    \/ FetchReturn

-----------------------------------------------------------------------------
(* The product search: CatalogController.searchProducts and                *)
(* CatalogService.searchProductsBySimilarity, and the embedding adapter     *)

minLimit == 1
maxLimit == 100
defaultLimit == 10

\* a number | undefined argument
JsNumber(n) == [kind |-> "number", val |-> n]
NoLimit == [kind |-> "undefined", val |-> 0]

\* truthiness of a number | undefined
NumTruthy(x) == x.kind = "number" /\ x.val # 0

\* limit ?? 10, and the default value of the parameter limit = 10
OrDefaultLimit(x) == IF x.kind = "undefined" THEN defaultLimit ELSE x.val

\* if (limit && (limit < 1 || limit > 100))
LimitRejected(limit) ==
    NumTruthy(limit) /\ (limit.val < minLimit \/ limit.val > maxLimit)

\* if (!query || query.trim().length === 0)
QueryRejected(query) == ~StrTruthy(query) \/ Len(Trim(query)) = 0

OpenAILit == <<"O", "p", "e", "n", "A", "I">>

\* an Error object: its name and its message (Undef: no message)
JsError(name, message) == [name |-> name, message |-> message]
NoError == JsError("none", Undef)

\* What openai.embeddings.create can reject with: an API error response, a
\* timeout, a connection error, a thrown value with no message.
EmbeddingFailures ==
    {JsError("APIError", <<"4", "0", "0", " ", "B", "a", "d", " ", "R", "e", "q", "u",
              "e", "s", "t">>),
     JsError("Error", <<"O", "p", "e", "n", "A", "I", " ", "r", "e", "q", "u", "e",
              "s", "t", " ", "t", "i", "m", "e", "d", " ", "o", "u", "t">>),
     JsError("Error", <<"C", "o", "n", "n", "e", "c", "t", "i", "o", "n", " ", "e",
              "r", "r", "o", "r", ".">>),
     JsError("Error", Undef)}

\* ... or resolve with: a data array, empty or holding the vector
EmbedOutcomes ==
    {[rejected |-> TRUE, error |-> e, data |-> <<>>] : e \in EmbeddingFailures}
    \cup {[rejected |-> FALSE, error |-> NoError, data |-> d] :
            d \in {<<>>} \cup {<<[embedding |-> JsArray(q)]>> : q \in QueryVectors}}

\* reading .embedding of data[0] when data is empty
TypeErrorReadingEmbedding ==
    JsError("TypeError",
            <<"C", "a", "n", "n", "o", "t", " ", "r", "e", "a", "d", " ",
              "p", "r", "o", "p", "e", "r", "t", "i", "e", "s", " ", "o",
              "f", " ", "u", "n", "d", "e", "f", "i", "n", "e", "d", " ",
              "(", "r", "e", "a", "d", "i", "n", "g", " ", "'", "e", "m",
              "b", "e", "d", "d", "i", "n", "g", "'", ")">>)

\* What the lines up to const queryEmbedding = embeddingResponse.data[0].embedding
\* throw (NoError: nothing).
EmbeddingError(outcome) ==
    IF outcome.rejected THEN outcome.error
    ELSE IF outcome.data = <<>> THEN TypeErrorReadingEmbedding
    ELSE NoError

\* What $queryRaw can reject with.
StoreFailures ==
    {JsError("PrismaClientKnownRequestError", <<"R", "a", "w", " ", "q", "u", "e", "r", "y", " ", "f", "a",
              "i", "l", "e", "d">>),
     JsError("PrismaClientInitializationError",
             <<"C", "a", "n", "'", "t", " ", "r", "e", "a", "c", "h", " ",
              "d", "a", "t", "a", "b", "a", "s", "e", " ", "s", "e", "r",
              "v", "e", "r">>)}

\* LIMIT must not be negative
NegativeLimitError ==
    JsError("PrismaClientKnownRequestError", <<"R", "a", "w", " ", "q", "u", "e", "r", "y", " ", "f", "a",
              "i", "l", "e", "d">>)

\* The vector stored with each product of the sample tables.
SampleVectors == <<(<<1, 0>>), (<<3, 4>>), (<<-1, 0>>)>>

\* the table after upserting the products ids, one after the other
RECURSIVE TableOf(_)
TableOf(ids) ==
    IF ids = <<>>
    THEN <<>>
    ELSE LET id == ids[Len(ids)]
         IN Upsert(TableOf(SubSeq(ids, 1, Len(ids) - 1)), CatalogProduct(id),
                   SampleVectors[id])

\* Tables a statement can find: built by upserts of catalog products.
SampleTables ==
    {TableOf(ids) :
        ids \in UNION {[1..n -> DOMAIN SampleVectors] :
                          n \in 0..Len(SampleVectors)}}

NoThrow == [type |-> "none", status |-> 0, message |-> ""]

BadRequest(message) ==
    [type |-> "BadRequestException", status |-> 400, message |-> message]

\* error.message?.includes('OpenAI') || error.name === 'APIError'
IsOpenAIError(error) ==
    \/ error.message # Undef /\ Includes(error.message, OpenAILit)
    \/ error.name = "APIError"

\* the catch block of searchProductsBySimilarity
SearchCatch(error) ==
    IF IsOpenAIError(error)
    THEN [type |-> "ErrorResponseException", status |-> 503,
          message |-> "OpenAI API Error: Failed to generate embedding for search"]
    ELSE [type |-> "HttpException", status |-> 500,
          message |-> "Failed to search products"]

NoSearch ==
    [op |-> "none", limitArg |-> NoLimit, serviceCalls |-> 0, serviceLimit |-> 0,
     embedCalls |-> 0, embedError |-> NoError, storeQueries |-> 0,
     storeError |-> NoError, thrown |-> NoThrow, rows |-> <<>>]

\* CatalogService.searchProductsBySimilarity(query, limit), called by op: the
\* ways it can end.
SearchProductsBySimilarity(op, limitArg, limit, embedOutcome, table, dbError) ==
    LET called == [NoSearch EXCEPT !.op = op, !.limitArg = limitArg,
                                   !.serviceCalls = 1, !.serviceLimit = limit,
                                   !.embedCalls = 1]
        embedError == EmbeddingError(embedOutcome)
        storeError == IF limit < 0 THEN NegativeLimitError ELSE dbError
    IN IF embedError # NoError
       THEN {[called EXCEPT !.embedError = embedError,
                            !.thrown = SearchCatch(embedError)]}
       ELSE IF storeError # NoError
            THEN {[called EXCEPT !.storeQueries = 1, !.storeError = storeError,
                                 !.thrown = SearchCatch(storeError)]}
            ELSE {[called EXCEPT !.storeQueries = 1, !.rows = rows] :
                     rows \in SimilarityQuery(table, embedOutcome.data[1].embedding.val,
                                              limit)}

\* q and limit as the pipes hand them to the controller
Queries == {Undef, EmptyStr, <<" ", " ">>, <<" ", "d", "r", "y", " ">>,
            <<"d", "r", "y">>}

LimitArgs ==
    {NoLimit} \cup {JsNumber(n) : n \in {-1, 0, minLimit, minLimit + 1, maxLimit,
                                         maxLimit + 1}}

InitSearch == lastSearch = NoSearch

\* CatalogController.searchProducts
SearchProducts ==
    /\ lastSearch = NoSearch
    /\ \E query \in Queries, limit \in LimitArgs, embedOutcome \in EmbedOutcomes,
          table \in SampleTables, dbError \in {NoError} \cup StoreFailures :
         IF QueryRejected(query)
         THEN lastSearch' =
                [NoSearch EXCEPT
                    !.op = "searchProducts", !.limitArg = limit,
                    !.thrown = BadRequest("Query parameter \"q\" is required")]
         ELSE IF LimitRejected(limit)
              THEN lastSearch' =
                     [NoSearch EXCEPT
                         !.op = "searchProducts", !.limitArg = limit,
                         !.thrown = BadRequest("Limit must be between 1 and 100")]
              ELSE lastSearch' \in
                     SearchProductsBySimilarity("searchProducts", limit,
                                                OrDefaultLimit(limit), embedOutcome,
                                                table, dbError)
    /\ UNCHANGED outsideSearch

\* CatalogService.searchProductsBySimilarity called by another service
SearchBySimilarity ==
    /\ lastSearch = NoSearch
    /\ \E limit \in LimitArgs, embedOutcome \in EmbedOutcomes,
          table \in SampleTables, dbError \in {NoError} \cup StoreFailures :
         lastSearch' \in
           SearchProductsBySimilarity("searchProductsBySimilarity", limit,
                                      OrDefaultLimit(limit), embedOutcome, table,
                                      dbError)
    /\ UNCHANGED outsideSearch

\* OpenAIEmbeddingService.generateEmbedding: every failure, a response without
\* a vector included, leaves as an ErrorResponseException
GenerateEmbedding ==
    /\ lastSearch = NoSearch
    /\ \E embedOutcome \in EmbedOutcomes :
         LET embedding == IF embedOutcome.data = <<>> THEN JsUndefined
                          ELSE embedOutcome.data[1].embedding
             error == IF embedOutcome.rejected THEN embedOutcome.error
                      ELSE IF ~Truthy(embedding) \/ ~IsArray(embedding)
                           THEN JsError("Error",
                                        <<"I", "n", "v", "a", "l", "i", "d", " ", "e", "m", "b", "e",
              "d", "d", "i", "n", "g", " ", "r", "e", "s", "p", "o", "n",
              "s", "e", " ", "f", "r", "o", "m", " ", "O", "p", "e", "n",
              "A", "I">>)
                           ELSE NoError
         IN lastSearch' =
              [NoSearch EXCEPT
                  !.op = "generateEmbedding", !.embedCalls = 1,
                  !.embedError = error,
                  !.thrown =
                      IF error # NoError
                      THEN [type |-> "ErrorResponseException", status |-> 503,
                            message |-> "OpenAI API Error: Failed to generate embedding"]
                      ELSE NoThrow,
                  !.rows = IF error # NoError THEN <<>> ELSE <<embedding.val>>]
    /\ UNCHANGED outsideSearch

\* The caller has taken the outcome and goes on.
SearchTaken ==
    /\ lastSearch # NoSearch
    /\ lastSearch' = NoSearch
    /\ UNCHANGED outsideSearch

SearchNext ==
    \/ SearchProducts
    \/ SearchBySimilarity
    \/ GenerateEmbedding
    \/ SearchTaken

-----------------------------------------------------------------------------
(* RecommendationService.generateRecommendation *)

searchLimit == 10

ProductNotFound ==
    [type |-> "ProductNotFoundException", status |-> 404,
     message |-> "Products not found"]

GenericFailure ==
    [type |-> "HttpException", status |-> 500,
     message |-> "Failed to generate recommendation. Please try again later."]

\* what the strategy can throw
StrategyFailure == [type |-> "TypeError", status |-> 0, message |-> "strategy"]

\* A catch block that wraps whatever it caught.
RecommendationCatchWrapsAll(error) == GenericFailure

\* catch (error) { if (error instanceof ProductNotFoundException) throw error;
\*                 throw new HttpException(...) }
RecommendationCatch(error) ==
    IF error.type = "ProductNotFoundException" THEN error ELSE GenericFailure

NoRec ==
    [pc |-> "idle", searchEnd |-> "none", searchIds |-> <<>>,
     lookupEnd |-> "none", lookupProducts |-> <<>>, strategyCalls |-> 0,
     strategyEnd |-> "none", thrown |-> NoThrow, response |-> NoRecommendation]

InitRec == rec = NoRec

\* const productResults = await this.catalogService.searchProductsBySimilarity(
\* query, 10); if (!productResults || productResults.length === 0) throw ...
RecSearch ==
    /\ rec.pc = "idle"
    /\ \E embedOutcome \in EmbedOutcomes, table \in SampleTables,
          dbError \in {NoError} \cup StoreFailures :
         \E found \in SearchProductsBySimilarity("generateRecommendation",
                                                 JsNumber(searchLimit), searchLimit,
                                                 embedOutcome, table, dbError) :
            rec' = IF found.thrown # NoThrow
                   THEN [rec EXCEPT !.pc = "threw", !.searchEnd = "threw",
                                    !.thrown = RecommendationCatch(found.thrown)]
                   ELSE IF Len(found.rows) = 0
                        THEN [rec EXCEPT
                                 !.pc = "threw", !.searchEnd = "returned",
                                 !.thrown = RecommendationCatch(ProductNotFound)]
                        ELSE [rec EXCEPT
                                 !.pc = "lookup", !.searchEnd = "returned",
                                 !.searchIds = [k \in DOMAIN found.rows |->
                                                  found.rows[k].shopifyId]]
    /\ UNCHANGED outsideRec

\* const products = await this.catalogService.getProductsByIds(...);
\* if (!products || products.length === 0) throw ...
RecLookup ==
    /\ rec.pc = "lookup"
    /\ \E table \in SampleTables, dbOk \in BOOLEAN :
         LET read == ReadByIds("getProductsByIds", table, JsArray(rec.searchIds),
                               dbOk)
         IN rec' = IF read.threw # "none"
                   THEN [rec EXCEPT
                            !.pc = "threw", !.lookupEnd = "threw",
                            !.thrown = RecommendationCatch(
                                           [type |-> "HttpException",
                                            status |-> 500,
                                            message |-> read.threw])]
                   ELSE IF Len(read.rows) = 0
                        THEN [rec EXCEPT
                                 !.pc = "threw", !.lookupEnd = "returned",
                                 !.thrown = RecommendationCatch(ProductNotFound)]
                        ELSE [rec EXCEPT
                                 !.pc = "strategy", !.lookupEnd = "returned",
                                 !.lookupProducts = read.rows]
    /\ UNCHANGED outsideRec

\* const recommendation = await this.strategy.generateRecommendation(profile,
\* products); return recommendation
RecStrategy ==
    /\ rec.pc = "strategy"
    /\ \E ok \in BOOLEAN :
         rec' = IF ok
                THEN [rec EXCEPT
                         !.pc = "returned", !.strategyCalls = @ + 1,
                         !.strategyEnd = "returned",
                         !.response =
                             [message |-> "Recommendation generated successfully",
                              routine |-> BaseRoutine(rec.lookupProducts),
                              industry |-> "haircare"]]
                ELSE [rec EXCEPT
                         !.pc = "threw", !.strategyCalls = @ + 1,
                         !.strategyEnd = "threw",
                         !.thrown = RecommendationCatch(StrategyFailure)]
    /\ UNCHANGED outsideRec

\* The caller has taken the outcome; the next request comes in.
RecTaken ==
    /\ rec.pc \in {"threw", "returned"}
    /\ rec' = NoRec
    /\ UNCHANGED outsideRec

RecNext ==
    \/ RecSearch
    \/ RecLookup
    \/ RecStrategy
    \/ RecTaken

-----------------------------------------------------------------------------
(* ApiKeyGuard *)

\* a header value that is one string
JsString(s) == [kind |-> "string", val |-> s]

\* truthiness of a string | string[] | undefined
HeaderTruthy(h) ==
    \/ h.kind = "array"
    \/ h.kind = "string" /\ h.val # EmptyStr

\* s.startsWith(prefix)
StartsWith(s, prefix) ==
    /\ Len(s) >= Len(prefix)
    /\ SubSeq(s, 1, Len(prefix)) = prefix

\* s.substring(n), for 0 <= n
Substring(s, n) == SubSeq(s, Min(n, Len(s)) + 1, Len(s))

\* 'Bearer '
BearerPrefix == <<"B", "e", "a", "r", "e", "r", " ">>

\* list[0]
First(list) == IF Len(list) = 0 THEN Undef ELSE list[1]

\* An extraction that reads the authorization header whatever its scheme.
ExtractApiKeyAnyScheme(headers) ==
    IF HeaderTruthy(headers.xApiKey)
    THEN IF IsArray(headers.xApiKey)
         THEN First(headers.xApiKey.val)
         ELSE headers.xApiKey.val
    ELSE IF StrTruthy(headers.authorization)
         THEN Substring(headers.authorization, 7)
         ELSE Undef

\* extractApiKey(request): string | undefined
ExtractApiKey(headers) ==
    IF HeaderTruthy(headers.xApiKey)
    THEN IF IsArray(headers.xApiKey)
         THEN First(headers.xApiKey.val)
         ELSE headers.xApiKey.val
    ELSE IF /\ StrTruthy(headers.authorization)
            /\ StartsWith(headers.authorization, BearerPrefix)
         THEN Substring(headers.authorization, 7)
         ELSE Undef

Unauthorized(message) ==
    [type |-> "UnauthorizedException", status |-> 401, message |-> message]

\* canActivate: what it throws, or NoThrow when it returns true
CanActivate(validApiKey, headers) ==
    LET apiKey == ExtractApiKey(headers)
    IN IF ~StrTruthy(validApiKey)
       THEN Unauthorized("API key authentication is not configured")
       ELSE IF ~StrTruthy(apiKey) \/ apiKey # validApiKey
            THEN Unauthorized("Invalid or missing API key")
            ELSE NoThrow

\* keys a deployment is configured with, and keys clients send
ApiKeys == {<<"k", "e", "y", "1">>, <<"k", "e", "y", "2">>}

\* configService.get('API_KEY'): unset, set to '', or a key
ConfiguredKeys == {Undef, EmptyStr} \cup ApiKeys

\* request.headers['x-api-key']
XApiKeyHeaders ==
    {JsUndefined, JsString(EmptyStr), JsArray(<<>>)}
    \cup {JsString(k) : k \in ApiKeys}
    \cup {JsArray(<<k>>) : k \in ApiKeys}
    \cup {JsArray(<<a, b>>) : a, b \in ApiKeys}

\* request.headers['authorization']
AuthorizationHeaders ==
    {Undef, EmptyStr, BearerPrefix}
    \cup ApiKeys
    \cup {BearerPrefix \o k : k \in ApiKeys}
    \cup {<<"b", "e", "a", "r", "e", "r", " ">> \o k : k \in ApiKeys}
    \cup {<<"B", "a", "s", "i", "c", " ">> \o k : k \in ApiKeys}

NoHeaders == [xApiKey |-> JsUndefined, authorization |-> Undef]

NoGuard ==
    [op |-> "none", validApiKey |-> Undef, headers |-> NoHeaders,
     admitted |-> FALSE, threw |-> NoThrow]

InitGuard == lastGuard = NoGuard

\* A request reaches a guarded route.
GuardRequest ==
    /\ \E validApiKey \in ConfiguredKeys, x \in XApiKeyHeaders,
          a \in AuthorizationHeaders :
         LET headers == [xApiKey |-> x, authorization |-> a]
             threw == CanActivate(validApiKey, headers)
         IN lastGuard' = [op |-> "canActivate", validApiKey |-> validApiKey,
                          headers |-> headers, admitted |-> threw = NoThrow,
                          threw |-> threw]
    /\ UNCHANGED outsideGuard

GuardNext == GuardRequest

-----------------------------------------------------------------------------
(* BaseRecommendationStrategy.filterProductsForStep on any filter *)

Given(items) == [defined |-> TRUE, items |-> items]

OtherTag == <<"o", "t", "h", "e", "r">>

\* filter.category: absent, or an object with any of equals, contains, in
CategoryFilters ==
    {NoCategoryFilter}
    \cup {[present |-> TRUE, equals |-> e, contains |-> c, in |-> n] :
            e \in {Undef, EmptyStr, <<"S", "H", "A", "M", "P", "O", "O">>},
            c \in {Undef, <<"P", "o", "o">>},
            n \in {NoCriterion, Given(<<>>), Given(<<Shampoo, ConditionerLit>>)}}

\* filter.tags: absent, or an object with any of hasAny, hasAll, excludes
TagFilters ==
    {NoTagFilter}
    \cup {[present |-> TRUE, hasAny |-> a, hasAll |-> l, excludes |-> x] :
            a \in {NoCriterion, Given(<<>>),
                   Given(<<<<"T", "a", "g">>, <<"n", "e", "w">>>>)},
            l \in {NoCriterion, Given(<<TagStr, <<"O", "t", "h", "e", "r">>>>)},
            x \in {NoCriterion, Given(<<OtherTag>>)}}

FilteredProduct(k, category, tags) ==
    [StrategyProduct(k, category) EXCEPT !.tags = tags]

\* products of every category and tag list used, told apart by their ids
FilteredProducts ==
    {FilteredProduct(k, c, t) :
        k \in 1..MaxFiltered,
        c \in {Null, Shampoo, Conditioner},
        t \in {<<>>, <<TagStr>>, <<<<"T", "A", "G">>, OtherTag>>}}

FilterInputs ==
    UNION {{list \in [1..n -> FilteredProducts] :
               \A a, b \in 1..n : a # b => list[a].shopifyId # list[b].shopifyId} :
           n \in 0..MaxFiltered}

NoFilterCall ==
    [op |-> "none", filter |-> [category |-> NoCategoryFilter,
                                tags |-> NoTagFilter],
     products |-> <<>>, kept |-> <<>>]

InitFilter == lastFilter = NoFilterCall

\* filterProductsForStep(products, stepConfig) as the base class defines it
FilterProducts ==
    /\ lastFilter = NoFilterCall
    /\ \E c \in CategoryFilters, t \in TagFilters, list \in FilterInputs :
         LET stepConfig == [name |-> "Step", order |-> 1,
                            filter |-> [category |-> c, tags |-> t]]
         IN lastFilter' =
                [op |-> "filterProductsForStep", filter |-> stepConfig.filter,
                 products |-> list,
                 kept |-> BaseFilterProductsForStep(list, stepConfig)]
    /\ UNCHANGED outsideFilter

\* The caller has the list; the next call can be made.
FilterTaken ==
    /\ lastFilter # NoFilterCall
    /\ lastFilter' = NoFilterCall
    /\ UNCHANGED outsideFilter

FilterNext ==
    \/ FilterProducts
    \/ FilterTaken

-----------------------------------------------------------------------------
(* CatalogService.embedAndStoreProducts *)

NumBatches == (MaxProducts + batchSize - 1) \div batchSize

\* A slice that forgets its end.
BatchToTheEnd == SubSeq(products, i + 1, Len(products))

\* const batch = products.slice(i, i + batchSize)
Batch == SubSeq(products, i + 1, Min(i + batchSize, Len(products)))

\* the number of the batch the loop is at (1-based)
BatchNo == (i \div batchSize) + 1

Bump(f, b) == [f EXCEPT ![b] = Min(f[b] + 1, MaxEmbedCalls)]

NoErrors == [defined |-> FALSE, val |-> <<>>]

\* errors: errors.length ? errors : undefined
ResultErrors(errs) ==
    IF Len(errs) # 0 THEN [defined |-> TRUE, val |-> errs] ELSE NoErrors

NoResult == [message |-> <<>>, productsProcessed |-> 0, errors |-> NoErrors]

InitIngest ==
    /\ pc = "start"
    /\ products = <<>>
    /\ i = 0
    /\ j = 0
    /\ errors = <<>>
    /\ successCount = 0
    /\ result = NoResult
    /\ embedCalls = [b \in 1..NumBatches |-> 0]
    /\ embedFails = [b \in 1..NumBatches |-> 0]
    /\ upsertIssued = [k \in 1..MaxProducts |-> 0]
    /\ lastReturned = NotReturned
    /\ lastPos = 0
    /\ badVectorAt = {}
    /\ dbFailedAt = {}
    /\ inFlight = 0

\* An emptiness test that never holds.
NoProductsNever(list) == FALSE

\* !products.length
NoProducts(list) == Len(list) = 0

\* const products = await this.fetchProductsFromShopify();
\* if (!products.length) return {...}
ProductsFetched(list) ==
    /\ products' = list
    /\ IF NoProducts(list)
       THEN /\ pc' = "done"
            /\ result' = [message |-> <<"No products found to embed">>,
                          productsProcessed |-> 0,
                          errors |-> NoErrors]
       ELSE /\ pc' = "loop"
            /\ UNCHANGED result
    /\ UNCHANGED <<i, j, errors, successCount, embedCalls, embedFails,
                   upsertIssued, lastReturned, lastPos, badVectorAt, dbFailedAt,
                   inFlight>>
    /\ UNCHANGED <<storeVars, strategyVars, laterVars>>

FetchProducts ==
    /\ pc = "start"
    /\ \E n \in CatalogSizes : ProductsFetched(Catalog(n))

\* for (...; i < products.length; ...) and, after the loop, the result
LoopTest ==
    /\ pc = "loop"
    /\ IF i < Len(products)
       THEN /\ pc' = "embed"
            /\ UNCHANGED result
       ELSE /\ pc' = "done"
            /\ result' = [message |-> <<"Successfully embedded", successCount,
                                        "out of", Len(products)>>,
                          productsProcessed |-> successCount,
                          errors |-> ResultErrors(errors)]
    /\ UNCHANGED <<products, i, j, errors, successCount, embedCalls, embedFails,
                   upsertIssued, lastReturned, lastPos, badVectorAt, dbFailedAt,
                   inFlight>>
    /\ UNCHANGED <<storeVars, strategyVars, laterVars>>

\* this.openai.embeddings.create(...) is called, and awaited
EmbedCall ==
    /\ pc = "embed"
    /\ inFlight' = inFlight + 1
    /\ pc' = "embedding"
    /\ UNCHANGED <<products, i, j, errors, successCount, result, embedCalls,
                   embedFails, upsertIssued, lastReturned, lastPos, badVectorAt,
                   dbFailedAt>>
    /\ UNCHANGED <<storeVars, strategyVars, laterVars>>

\* embeddingsResponse = await this.openai.embeddings.create(...) resolves
EmbedOk ==
    /\ pc = "embedding"
    /\ inFlight' = inFlight - 1
    /\ embedCalls' = Bump(embedCalls, BatchNo)
    /\ pc' = "store"
    /\ j' = 0
    /\ UNCHANGED <<products, i, errors, successCount, result, embedFails,
                   upsertIssued, lastReturned, lastPos, badVectorAt, dbFailedAt>>
    /\ UNCHANGED <<storeVars, strategyVars, laterVars>>

\* ... or rejects: catch (err) { log; then the backoff
EmbedThrows ==
    /\ pc = "embedding"
    /\ inFlight' = inFlight - 1
    /\ embedCalls' = Bump(embedCalls, BatchNo)
    /\ embedFails' = Bump(embedFails, BatchNo)
    /\ pc' = "backoff"
    /\ UNCHANGED <<products, i, j, errors, successCount, result, upsertIssued,
                   lastReturned, lastPos, badVectorAt, dbFailedAt>>
    /\ UNCHANGED <<storeVars, strategyVars, laterVars>>

\* The catch block forgetting i -= batchSize: continue moves to the next batch.
IndexAfterCatchSkips(idx) == idx + batchSize

\* the loop index after the catch block: i -= batchSize; continue (i += batchSize)
IndexAfterCatch(idx) == (idx - batchSize) + batchSize

\* await this.delay(2000); i -= batchSize; continue;
Backoff ==
    /\ pc = "backoff"
    /\ i' = IndexAfterCatch(i)
    /\ pc' = "loop"
    /\ UNCHANGED <<products, j, errors, successCount, result, embedCalls,
                   embedFails, upsertIssued, lastReturned, lastPos, badVectorAt,
                   dbFailedAt, inFlight>>
    /\ UNCHANGED <<storeVars, strategyVars, laterVars>>

InvalidEmbeddingError(product) ==
    [kind |-> "Invalid embedding", title |-> product.title]

DbError(product) ==
    [kind |-> "DB error", title |-> product.title]

\* if (!embedding || !Array.isArray(embedding))
EmbeddingRejected(embedding) == ~Truthy(embedding) \/ ~IsArray(embedding)

\* what embeddingsResponse.data[j]?.embedding can be besides the product's vector
AnomalousEmbeddings == {JsNull, JsUndefined, JsObject, JsArray(<<>>)}

\* A failed write tried again (a j-- in the catch block).
InnerIndexRetriesOnDbError(jdx, dbOk, len) == IF dbOk THEN jdx + 1 ELSE jdx

\* A failed write ending the batch (a break in the catch block).
InnerIndexBreaksOnDbError(jdx, dbOk, len) == IF dbOk THEN jdx + 1 ELSE len

\* j after one iteration of the inner loop: the catch block falls through to j++
InnerIndexAfter(jdx, dbOk, len) == jdx + 1

\* One iteration of for (let j = 0; j < batch.length; j++)
StoreProduct ==
    /\ pc = "store"
    /\ j < Len(Batch)
    /\ LET product == Batch[j + 1]
           pos == i + j + 1
       IN \E embedding \in {JsArray(EmbeddingOf(product))} \cup AnomalousEmbeddings,
             dbOk \in BOOLEAN :
            LET bad == IF embedding \in AnomalousEmbeddings THEN {pos} ELSE {}
                failed == IF dbOk THEN {} ELSE {pos}
            IN /\ Cardinality(badVectorAt \cup bad)
                    + Cardinality(dbFailedAt \cup failed) <= MaxFaults
               /\ lastReturned' = embedding
               /\ lastPos' = pos
               /\ badVectorAt' = badVectorAt \cup bad
               /\ IF EmbeddingRejected(embedding)
                  THEN /\ dbOk
                       /\ errors' = Append(errors, InvalidEmbeddingError(product))
                       /\ j' = j + 1
                       /\ UNCHANGED <<successCount, store, upsertIssued, dbFailedAt>>
                  ELSE /\ upsertIssued' = [upsertIssued EXCEPT ![pos] = @ + 1]
                       /\ dbFailedAt' = dbFailedAt \cup failed
                       /\ j' = InnerIndexAfter(j, dbOk, Len(Batch))
                       /\ IF dbOk
                          THEN /\ store' = Upsert(store, product, embedding.val)
                               /\ successCount' = successCount + 1
                               /\ UNCHANGED errors
                          ELSE /\ errors' = Append(errors, DbError(product))
                               /\ UNCHANGED <<successCount, store>>
    /\ UNCHANGED <<pc, products, i, result, embedCalls, embedFails, inFlight>>
    /\ UNCHANGED <<lastCall, upsertLog, strategyVars, laterVars>>

\* end of the batch: the inter-batch delay and the loop's i += batchSize
BatchEnd ==
    /\ pc = "store"
    /\ j >= Len(Batch)
    /\ i' = i + batchSize
    /\ pc' = "loop"
    /\ UNCHANGED <<products, j, errors, successCount, result, embedCalls,
                   embedFails, upsertIssued, lastReturned, lastPos, badVectorAt,
                   dbFailedAt, inFlight>>
    /\ UNCHANGED <<storeVars, strategyVars, laterVars>>

Next ==
    \/ FetchProducts
    \/ LoopTest
    \/ EmbedCall
    \/ EmbedOk
    \/ EmbedThrows
    \/ Backoff
    \/ StoreProduct
    \/ BatchEnd

-----------------------------------------------------------------------------
(* An ingestion run that is interrupted, and the run after it *)

\* A row an earlier sync of an older catalog left in the table.
OldRow(id) ==
    [shopifyId   |-> id,
     title       |-> <<"Old title", id>>,
     description |-> <<"Old description", id>>,
     tags        |-> <<<<"o", "l", "d">>>>,
     category    |-> Treatment,
     image       |-> OtherImageUrl,
     price       |-> OtherPriceStr,
     embedding   |-> <<7, 7>>]

\* Tables the first run can find: empty, a product of the catalog, or a
\* product of the catalog and one that has left it.
OldTables ==
    {<<>>, <<OldRow(2)>>, <<OldRow(MaxProducts + 2), OldRow(1)>>}

InitRun == run = [no |-> 0, found |-> <<>>, catalog |-> <<>>, written |-> {}]

\* The table as the earlier syncs left it, when the first run starts.
FirstRun ==
    /\ run.no = 0
    /\ pc = "start"
    /\ \E table \in OldTables :
         /\ store' = table
         /\ run' = [run EXCEPT !.no = 1, !.found = table]
    /\ UNCHANGED ingestVars
    /\ UNCHANGED outsideRun

\* no call rejected, every vector the product's own, no write failed
RunWithoutFailures ==
    /\ \A b \in 1..NumBatches : embedFails[b] = 0
    /\ badVectorAt = {}
    /\ dbFailedAt = {}

\* a run is under way
Running == run.no \in {1, 2}

\* The process dies between two steps of the first run: what it has written
\* stays in the table, everything it held in memory is gone.
Interrupt ==
    /\ run.no = 1
    /\ pc \notin {"start", "done", "interrupted"}
    /\ pc' = "interrupted"
    /\ inFlight' = 0
    /\ run' = [run EXCEPT
                 !.catalog = products,
                 !.written = {p \in 1..MaxProducts : upsertIssued[p] >= 1}]
    /\ UNCHANGED <<products, i, j, errors, successCount, result, embedCalls,
                   embedFails, upsertIssued, lastReturned, lastPos, badVectorAt,
                   dbFailedAt>>
    /\ UNCHANGED store
    /\ UNCHANGED outsideRun

\* embedAndStoreProducts is called again.
SecondRun ==
    /\ run.no = 1
    /\ pc = "interrupted"
    /\ run' = [run EXCEPT !.no = 2]
    /\ pc' = "start"
    /\ products' = <<>>
    /\ i' = 0
    /\ j' = 0
    /\ errors' = <<>>
    /\ successCount' = 0
    /\ result' = NoResult
    /\ embedCalls' = [b \in 1..NumBatches |-> 0]
    /\ embedFails' = [b \in 1..NumBatches |-> 0]
    /\ upsertIssued' = [k \in 1..MaxProducts |-> 0]
    /\ lastReturned' = NotReturned
    /\ lastPos' = 0
    /\ badVectorAt' = {}
    /\ dbFailedAt' = {}
    /\ inFlight' = 0
    /\ UNCHANGED store
    /\ UNCHANGED outsideRun

\* The steps of a run without failures; the run after an interruption fetches
\* the catalog the interrupted one had fetched.
InterruptNext ==
    \/ FirstRun
    \/ Running /\ FetchProducts /\ (run.no = 2 => products' = run.catalog)
    \/ Running /\ LoopTest
    \/ Running /\ EmbedCall
    \/ Running /\ EmbedOk
    \/ Running /\ StoreProduct /\ RunWithoutFailures'
    \/ Running /\ BatchEnd
    \/ Interrupt
    \/ SecondRun

-----------------------------------------------------------------------------
(* An ingestion run whose catalog fetch goes page by page *)

\* the run is awaiting its fetch
Fetching == run.no = 1 /\ pc = "start"

\* const products = await fetch...(): the fetch returned its list
FetchResolved ==
    /\ Fetching
    /\ fPc = "returned"
    /\ ProductsFetched(fetched)

\* A catch around the await that goes on with the pages fetched so far.
FetchRejectedGoesOn ==
    /\ Fetching
    /\ fPc = "failed"
    /\ ProductsFetched(allProducts)

\* ... or threw: nothing around the await catches, embedAndStoreProducts
\* rejects with the same exception
FetchRejected ==
    /\ Fetching
    /\ fPc = "failed"
    /\ pc' = "threw"
    /\ UNCHANGED <<products, i, j, errors, successCount, result, embedCalls,
                   embedFails, upsertIssued, lastReturned, lastPos, badVectorAt,
                   dbFailedAt, inFlight>>
    /\ UNCHANGED <<storeVars, strategyVars, laterVars>>

PagedRunNext ==
    \/ FirstRun
    \/ Fetching /\ FetchAllProducts
    \/ Fetching /\ FetchPage
    \/ Fetching /\ FetchPageThrows
    \/ Fetching /\ FetchLoopExit
    \/ Fetching /\ FetchReturn
    \/ FetchResolved
    \/ FetchRejected
    \/ Running /\ LoopTest
    \/ Running /\ EmbedCall
    \/ Running /\ EmbedOk
    \/ Running /\ StoreProduct /\ RunWithoutFailures'
    \/ Running /\ BatchEnd

-----------------------------------------------------------------------------
(* Two ingestion runs at the same time *)

\* A product as the catalog had it at `version`: every field differs between
\* the two versions.
SnapshotProduct(id, version) ==
    [shopifyId   |-> id,
     title       |-> <<"Title", version>>,
     description |-> <<"Description", version>>,
     tags        |-> IF version = 1 THEN <<TagStr>> ELSE <<>>,
     category    |-> IF version = 1 THEN Shampoo ELSE Null,
     image       |-> IF version = 1 THEN ImageUrl ELSE OtherImageUrl,
     price       |-> IF version = 1 THEN PriceStr ELSE Null]

\* the vector computed from the product's text at that version
SnapshotVector(version) == IF version = 1 THEN <<1, 0>> ELSE <<0, 1>>

\* Catalogs a run can have fetched: any of the products, in any order, all at
\* one version.
Snapshots(versions) ==
    LET orders == UNION {{q \in [1..n -> 1..MaxIds] :
                            \A a, b \in 1..n : a # b => q[a] # q[b]} :
                         n \in 0..MaxIds}
    IN {[k \in DOMAIN q |-> [product |-> SnapshotProduct(q[k], v),
                             embedding |-> SnapshotVector(v)]] :
           q \in orders, v \in versions}

NoOverlap == [started |-> FALSE, found |-> <<>>, snapshots |-> <<<<>>, <<>>>>,
              written |-> <<0, 0>>, failed |-> {}]

InitOverlap == overlap = NoOverlap

\* Two calls of embedAndStoreProducts are under way: the first fetched the
\* catalog at its older version, the second at that version or the newer one.
StartBoth ==
    /\ ~overlap.started
    /\ \E table \in OldTables, first \in Snapshots({1}), second \in Snapshots({1, 2}) :
         /\ store' = table
         /\ overlap' = [NoOverlap EXCEPT !.started = TRUE, !.found = table,
                                         !.snapshots = <<first, second>>]
    /\ UNCHANGED outsideOverlap

\* the next upsert of run r: await $executeRaw resolves,
RunUpsert(r) ==
    /\ overlap.started
    /\ overlap.written[r] < Len(overlap.snapshots[r])
    /\ LET next == overlap.snapshots[r][overlap.written[r] + 1]
       IN store' = Upsert(store, next.product, next.embedding)
    /\ overlap' = [overlap EXCEPT !.written[r] = @ + 1]
    /\ UNCHANGED outsideOverlap

\* ... or rejects, and the run goes on with its next product
RunUpsertThrows(r) ==
    /\ overlap.started
    /\ overlap.written[r] < Len(overlap.snapshots[r])
    /\ overlap.failed = {}
    /\ overlap' = [overlap EXCEPT !.written[r] = @ + 1,
                                  !.failed = {<<r, overlap.written[r] + 1>>}]
    /\ UNCHANGED store
    /\ UNCHANGED outsideOverlap

OverlapNext ==
    \/ StartBoth
    \/ \E r \in 1..2 : RunUpsert(r)
    \/ \E r \in 1..2 : RunUpsertThrows(r)

-----------------------------------------------------------------------------
(* Upserts and runs made in different orders *)

\* the table after a run over the catalog from position k on that nothing
\* interrupts and in which nothing fails
RECURSIVE UninterruptedRun(_, _, _)
UninterruptedRun(table, catalog, k) ==
    IF k > Len(catalog) THEN table
    ELSE UninterruptedRun(Upsert(table, catalog[k], EmbeddingOf(catalog[k])),
                          catalog, k + 1)

UpsertArguments == RepoProducts \X Vectors

\* Tables the upserts are made on: empty, or holding one product
PairTables ==
    {<<>>} \cup {Upsert(<<>>, x[1], x[2]) : x \in UpsertArguments}

\* the orders a catalog of three products can be handled in
CatalogOrders ==
    {p \in [1..3 -> 1..3] : \A a, b \in 1..3 : a # b => p[a] # p[b]}

NoPair ==
    [op |-> "none", table |-> <<>>, x |-> <<>>, y |-> <<>>, order |-> <<>>,
     first |-> <<>>, second |-> <<>>, once |-> <<>>, twice |-> <<>>]

InitPair == lastPair = NoPair

\* upsert(x) then upsert(y), and the other way round, on the same table; and
\* upsert(x) once and twice
UpsertBothWays ==
    /\ lastPair = NoPair
    /\ \E table \in PairTables, x, y \in UpsertArguments :
         lastPair' =
             [NoPair EXCEPT
                 !.op = "upserts", !.table = table, !.x = x, !.y = y,
                 !.first = Upsert(Upsert(table, x[1], x[2]), y[1], y[2]),
                 !.second = Upsert(Upsert(table, y[1], y[2]), x[1], x[2]),
                 !.once = Upsert(table, x[1], x[2]),
                 !.twice = Upsert(Upsert(table, x[1], x[2]), x[1], x[2])]
    /\ UNCHANGED outsidePair

\* a run without failures over a catalog of three products, in catalog order
\* and in another order
RunBothWays ==
    /\ lastPair = NoPair
    /\ \E table \in PairTables, p \in CatalogOrders :
         lastPair' =
             [NoPair EXCEPT
                 !.op = "runs", !.table = table, !.order = p,
                 !.first = UninterruptedRun(table, Catalog(3), 1),
                 !.second = UninterruptedRun(
                                table, [k \in 1..3 |-> CatalogProduct(p[k])], 1)]
    /\ UNCHANGED outsidePair

PairTaken ==
    /\ lastPair # NoPair
    /\ lastPair' = NoPair
    /\ UNCHANGED outsidePair

OrderNext ==
    \/ UpsertBothWays
    \/ RunBothWays
    \/ PairTaken

-----------------------------------------------------------------------------
(* OpenAIEmbeddingService.generateEmbeddings *)

\* the vector the API computes for the text at position k of the input
VectorOfText(k) == <<k, 1>>

\* One element of response.data at position k: an object whose embedding is
\* the vector of text k or an unusable value, or no object at all (null).
DataItems(k) ==
    {[object |-> TRUE, embedding |-> e] :
        e \in {JsArray(VectorOfText(k))} \cup AnomalousEmbeddings}
    \cup {[object |-> FALSE, embedding |-> JsUndefined]}

\* response.data: up to MaxTexts elements, whatever the number of texts sent
DataArrays ==
    UNION {{d \in [1..m -> UNION {DataItems(k) : k \in 1..MaxTexts}] :
              \A k \in 1..m : d[k] \in DataItems(k)} : m \in 0..MaxTexts}

\* What openai.embeddings.create({ model, input: texts }) settles with.
BatchEmbedOutcomes ==
    {[rejected |-> TRUE, error |-> e, data |-> <<>>] : e \in EmbeddingFailures}
    \cup {[rejected |-> FALSE, error |-> NoError, data |-> d] : d \in DataArrays}

\* embeddings.some((emb) => !emb || !Array.isArray(emb))
SomeInvalid(embeddings) ==
    \E k \in 1..Len(embeddings) :
        ~Truthy(embeddings[k]) \/ ~IsArray(embeddings[k])

NoEmbedBatch ==
    [texts |-> -1, outcome |-> [rejected |-> FALSE, error |-> NoError,
                                data |-> <<>>],
     thrown |-> NoThrow, returned |-> <<>>]

\* generateEmbeddings(texts) for a list of n texts: the try block maps
\* response.data to its embedding fields (a TypeError on a null element),
\* throws on an invalid one and returns the list; the catch block wraps
\* whatever was thrown.
GenerateEmbeddingsCall(n, outcome) ==
    LET data == outcome.data
        mapThrows == \E k \in 1..Len(data) : ~data[k].object
        embeddings == [k \in 1..Len(data) |-> data[k].embedding]
        caught == \/ outcome.rejected
                  \/ mapThrows
                  \/ SomeInvalid(embeddings)
    IN [texts |-> n, outcome |-> outcome,
        thrown |->
            IF caught
            THEN [type |-> "ErrorResponseException", status |-> 503,
                  message |-> "OpenAI API Error: Failed to generate embeddings"]
            ELSE NoThrow,
        returned |-> IF caught THEN <<>> ELSE embeddings]

InitEmbedBatch == lastEmbed = NoEmbedBatch

GenerateEmbeddings ==
    /\ lastEmbed = NoEmbedBatch
    /\ \E n \in 0..MaxTexts, outcome \in BatchEmbedOutcomes :
         lastEmbed' = GenerateEmbeddingsCall(n, outcome)
    /\ UNCHANGED outsideEmbed

\* The caller has taken the outcome and goes on.
EmbedBatchTaken ==
    /\ lastEmbed # NoEmbedBatch
    /\ lastEmbed' = NoEmbedBatch
    /\ UNCHANGED outsideEmbed

EmbedNext ==
    \/ GenerateEmbeddings
    \/ EmbedBatchTaken

Init ==
    /\ InitIngest
    /\ InitStore
    /\ InitStrategy
    /\ InitRead
    /\ InitFetch
    /\ InitSearch
    /\ InitRec
    /\ InitGuard
    /\ InitTemplate
    /\ InitFilter
    /\ InitRun
    /\ InitPair
    /\ InitEmbedBatch
    /\ InitOverlap

Spec == Init /\ [][Next]_vars

\* The event loop resumes the function whenever the awaited call has settled.
FairSpec == Spec /\ WF_vars(Next)

UpsertSpec == Init /\ [][UpsertNext]_vars

StrategySpec == Init /\ [][StrategyNext]_vars

ReadSpec == Init /\ [][ReadNext]_vars

FetchSpec == Init /\ [][FetchNext]_vars

SearchSpec == Init /\ [][SearchNext]_vars

RecommendSpec == Init /\ [][RecNext]_vars

GuardSpec == Init /\ [][GuardNext]_vars

TemplateSpec == Init /\ [][TemplateNext]_vars

FilterSpec == Init /\ [][FilterNext]_vars

InterruptSpec == Init /\ [][InterruptNext]_vars

OrderSpec == Init /\ [][OrderNext]_vars

EmbedSpec == Init /\ [][EmbedNext]_vars

PagedRunSpec == Init /\ [][PagedRunNext]_vars

OverlapSpec == Init /\ [][OverlapNext]_vars

-----------------------------------------------------------------------------
(* Properties of the ingestion run *)

\* catalog positions of batch b
BatchPositions(b) ==
    {k \in 1..Len(products) : ((k - 1) \div batchSize) + 1 = b}

\* the loop has left batch b behind
BatchDone(b) == pc = "done" \/ i >= b * batchSize

\* catalog positions the inner loop has handled or the outer loop has passed
Processed ==
    IF pc = "store" THEN 1..(i + j) ELSE 1..Min(i, Len(products))

Stored(k) == RowsOf(store, products[k].shopifyId) # {}

ErrorsWith(entry) == {e \in DOMAIN errors : errors[e] = entry}

CleanBatch(b) == BatchPositions(b) \cap (badVectorAt \cup dbFailedAt) = {}

\* C1: a batch whose embedding call fails is retried exactly once and then
\* abandoned, so no batch is submitted to the embedding service more than twice.
C1_AtMostTwoEmbeddingCallsPerBatch ==
    \A b \in 1..NumBatches : embedCalls[b] <= 2

\* C2: whatever fails, and however often, embedAndStoreProducts eventually
\* returns a result.
C2_EventuallyReturns == <>(pc = "done")

\* C3: when the embedding call of exactly one batch k fails twice and nothing
\* else fails, the run returns productsProcessed = N - |batch k| and at least
\* |batch k| errors.
C3_FailedBatchIsLeftOut ==
    \A k \in 1..NumBatches :
        (/\ pc = "done"
         /\ BatchPositions(k) # {}
         /\ embedFails[k] = 2
         /\ \A b \in 1..NumBatches : b # k => embedFails[b] = 0
         /\ badVectorAt = {}
         /\ dbFailedAt = {})
        => /\ result.productsProcessed
                = Len(products) - Cardinality(BatchPositions(k))
           /\ Len(result.errors.val) >= Cardinality(BatchPositions(k))

\* C4: a batch whose embedding call fails once and then succeeds has every
\* product upserted, adds nothing to errors, and was submitted exactly twice.
C4_RetryOnceThenProcessed ==
    \A b \in 1..NumBatches :
        (/\ BatchDone(b)
         /\ BatchPositions(b) # {}
         /\ embedFails[b] = 1
         /\ CleanBatch(b))
        => /\ embedCalls[b] = 2
           /\ \A k \in BatchPositions(b) :
                /\ upsertIssued[k] = 1
                /\ \E r \in RowsOf(store, products[k].shopifyId) :
                      store[r] = ExcludedRow(products[k], EmbeddingOf(products[k]))
                /\ \A e \in DOMAIN errors : errors[e].title # products[k].title

C4_Witness ==
    /\ pc = "done"
    /\ Len(products) > batchSize
    /\ \E b \in 1..NumBatches :
         /\ BatchPositions(b) # {}
         /\ embedFails[b] = 1
         /\ embedCalls[b] = 2
         /\ CleanBatch(b)
         /\ \A k \in BatchPositions(b) : Stored(k)

\* C9: a failed store write is recorded as exactly one 'DB error' entry, the
\* other products of the batch and of later batches are still upserted, and
\* productsProcessed counts only the upserts that succeeded.
C9_FailedWriteIsIsolated ==
    /\ \A k \in dbFailedAt :
         /\ Cardinality(ErrorsWith(DbError(products[k]))) = 1
         /\ ~Stored(k)
    /\ Cardinality({e \in DOMAIN errors : errors[e].kind = "DB error"})
         = Cardinality(dbFailedAt)
    /\ \A k \in Processed :
         (k \notin dbFailedAt /\ k \notin badVectorAt) => Stored(k)
    /\ successCount
         = Cardinality({k \in 1..Len(products) :
                           upsertIssued[k] > 0 /\ k \notin dbFailedAt})
    /\ (pc = "done" /\ Len(products) > 0)
         => result.productsProcessed = successCount

C9_Witness ==
    /\ pc = "done"
    /\ \E k \in dbFailedAt :
         /\ k + 1 \in BatchPositions(1) /\ Stored(k + 1)
         /\ \E m \in BatchPositions(2) : Stored(m)
         /\ result.productsProcessed = Len(products) - 1
         /\ result.errors.val = <<DbError(products[k])>>

\* the iteration of the inner loop for catalog position p has ended: its store
\* write was issued and awaited, or its vector was turned down
Handled(p) == upsertIssued[p] >= 1 \/ p \in badVectorAt

\* C22: an ingestion run never has two embedding calls in flight at once,
\* handles batches in catalog order, and issues the embedding call for the
\* next batch only after every store write of the batches before it has
\* completed (succeeded or failed).
C22_OneBatchAtATime ==
    [][/\ inFlight' <= 1
       /\ i' \in {i, i + batchSize}
       /\ inFlight' > inFlight
          => /\ inFlight = 0
             /\ pc = "embed"
             /\ i' = i
             /\ \A p \in 1..i : Handled(p)]_vars

C22_Witness ==
    /\ pc = "embedding"
    /\ inFlight = 1
    /\ i = batchSize
    /\ Len(products) > batchSize
    /\ \E p \in 1..batchSize : p \in dbFailedAt /\ upsertIssued[p] = 1

\* no embedding call rejected, every vector was the product's, no write threw
FailureFree ==
    /\ \A b \in 1..NumBatches : embedFails[b] = 0
    /\ badVectorAt = {}
    /\ dbFailedAt = {}

\* C23: in an ingestion run without failures over N products, exactly
\* ceil(N/20) embedding calls are made, each carrying at most 20 texts in
\* catalog order, exactly N upserts are issued, and productsProcessed = N.
C23_FailureFreeRunCounts ==
    LET N == Len(products)
        calls == (N + 19) \div 20
    IN /\ pc = "embedding"
          => /\ Len(Batch) \in 1..20
             /\ i = 20 * (BatchNo - 1)
             /\ \A k \in 1..Len(Batch) : Batch[k] = products[i + k]
             /\ FailureFree => \A p \in 1..MaxProducts :
                                  upsertIssued[p] = IF p <= i THEN 1 ELSE 0
       /\ (pc = "done" /\ FailureFree)
          => /\ \A b \in 1..NumBatches :
                  embedCalls[b] = IF b <= calls THEN 1 ELSE 0
             /\ \A p \in 1..MaxProducts :
                  upsertIssued[p] = IF p <= N THEN 1 ELSE 0
             /\ result.productsProcessed = N
             /\ result.errors = NoErrors

C23_Witness ==
    /\ pc = "done"
    /\ FailureFree
    /\ Len(products) = 21
    /\ embedCalls[1] = 1 /\ embedCalls[2] = 1
    /\ result.productsProcessed = 21
    /\ upsertIssued[21] = 1

\* the entries of errors that name the product at catalog position p
ErrorEntriesOf(p) ==
    {k \in DOMAIN errors :
        errors[k] \in {InvalidEmbeddingError(products[p]), DbError(products[p])}}

\* errors?.length of the returned result
ReturnedErrorCount ==
    IF result.errors.defined THEN Len(result.errors.val) ELSE 0

\* C28: within one run every fetched product is passed to the store's upsert
\* at most once, and on return each fetched product is accounted for exactly
\* once, counted in productsProcessed or named by one entry of errors, so that
\* productsProcessed + |errors| is the number of fetched products.
C28_EveryProductAccountedOnce ==
    /\ \A p \in DOMAIN upsertIssued : upsertIssued[p] <= 1
    /\ pc = "done"
         => /\ result.productsProcessed + ReturnedErrorCount = Len(products)
            /\ \A p \in DOMAIN products : Cardinality(ErrorEntriesOf(p)) <= 1
            /\ \A k \in DOMAIN errors : \E p \in DOMAIN products : k \in ErrorEntriesOf(p)
            /\ result.productsProcessed
                 = Cardinality({p \in DOMAIN products : ErrorEntriesOf(p) = {}})
            /\ \A p \in DOMAIN products :
                 ErrorEntriesOf(p) = {} <=> (upsertIssued[p] = 1 /\ p \notin dbFailedAt)

\* a run over two batches returned after a retried batch and one failed write
C28_Witness ==
    /\ pc = "done"
    /\ Len(products) = MaxProducts
    /\ embedFails[1] >= 1
    /\ dbFailedAt # {}
    /\ result.productsProcessed = MaxProducts - 1
    /\ ReturnedErrorCount = 1

\* the run has called neither embeddings.create nor the store
NothingEmbeddedOrWritten ==
    /\ inFlight = 0
    /\ \A b \in 1..NumBatches : embedCalls[b] = 0
    /\ \A p \in DOMAIN upsertIssued : upsertIssued[p] = 0
    /\ store = run.found

\* C29: when a page request of the catalog fetch fails, the fetch throws and
\* hands back none of the pages it already had, and embedAndStoreProducts
\* rejects with that error having made no embedding call and no store write:
\* the table is as the run found it.
C29_FailedFetchLeavesStoreUntouched ==
    /\ fPc = "failed"
         => /\ fetched = <<>>
            /\ products = <<>>
            /\ pc \in {"start", "threw"}
            /\ NothingEmbeddedOrWritten
    /\ pc = "threw"
         => /\ fPc = "failed"
            /\ result = NoResult
            /\ successCount = 0
            /\ errors = <<>>

\* the second page request failed after a first page of products, over a table
\* that already held rows; the run has rejected
C29_Witness ==
    /\ pc = "threw"
    /\ fPc = "failed"
    /\ pagesRequested = 2
    /\ allProducts # <<>>
    /\ store # <<>>
    /\ store = run.found

\* C16: when the catalog fetch returns zero products, embedAndStoreProducts
\* returns the message 'No products found to embed' with productsProcessed = 0
\* and no errors, and performs no embedding call and no store write.
C16_EmptyCatalogIsNothingToDo ==
    (pc = "done" /\ products = <<>>)
    => /\ result.message = <<"No products found to embed">>
       /\ result.productsProcessed = 0
       /\ result.errors = NoErrors
       /\ \A b \in 1..NumBatches : embedCalls[b] = 0
       /\ \A k \in 1..MaxProducts : upsertIssued[k] = 0
       /\ store = <<>>
       /\ errors = <<>>

C16_Witness ==
    /\ pc = "done"
    /\ products = <<>>
    /\ result.message = <<"No products found to embed">>
    /\ store = <<>>

NonEmptyArray(e) == e.kind = "array" /\ Len(e.val) > 0

\* C10: a product is written only if the vector returned for its position is a
\* non-empty array; otherwise a per-product error is recorded and no upsert is
\* issued for it.
C10_OnlyNonEmptyVectorsAreWritten ==
    (lastPos # 0 /\ ~NonEmptyArray(lastReturned))
    => /\ upsertIssued[lastPos] = 0
       /\ errors # <<>>
       /\ errors[Len(errors)] = InvalidEmbeddingError(products[lastPos])

-----------------------------------------------------------------------------
(* Properties of the repository's upsert *)

NonEmptyField(x) == x # Null /\ x # EmptyStr

\* C5: an upsert on a stored shopifyId replaces title, description, tags and
\* embedding with the incoming values, and category, image and price only when
\* the incoming value is non-empty; otherwise the stored value is kept.
C5_EmptyOptionalFieldsKeepPrior ==
    [][(lastCall'.made /\ ~lastCall'.threw)
       => LET product == lastCall'.product
          IN \A k \in RowsOf(store, product.shopifyId) :
               /\ store'[k].title = product.title
               /\ store'[k].description = product.description
               /\ store'[k].tags = product.tags
               /\ store'[k].embedding = lastCall'.embedding
               /\ store'[k].category
                    = IF NonEmptyField(product.category)
                      THEN product.category ELSE store[k].category
               /\ store'[k].image
                    = IF NonEmptyField(product.image)
                      THEN product.image ELSE store[k].image
               /\ store'[k].price
                    = IF NonEmptyField(product.price)
                      THEN product.price ELSE store[k].price]_vars

\* C6: after any sequence of successful upserts the store holds exactly one row
\* per upserted shopifyId, carrying the embedding of that id's latest upsert.
C6_OneRowPerIdLatestEmbedding ==
    /\ \A id \in 1..MaxIds :
         IF upsertLog[id].last = NoVector
         THEN RowsOf(store, id) = {}
         ELSE /\ Cardinality(RowsOf(store, id)) = 1
              /\ \A k \in RowsOf(store, id) :
                    store[k].embedding = upsertLog[id].last
    /\ \A k \in DOMAIN store : store[k].shopifyId \in 1..MaxIds

C6_Witness ==
    /\ \E id \in 1..MaxIds :
         /\ upsertLog[id].overwritten
         /\ Cardinality(RowsOf(store, id)) = 1
    /\ Len(store) = MaxIds

-----------------------------------------------------------------------------
(* Properties of the reads *)

NullishOrEmpty(ids) == ids \in {JsNull, JsUndefined, JsArray(<<>>)}

\* C11: findByIds (and getProductsByIds) called with an empty, null or
\* undefined id list returns an empty list without issuing any query to the
\* store.
C11_NoQueryForEmptyIds ==
    (lastRead.op \in {"findByIds", "getProductsByIds"}
     /\ NullishOrEmpty(lastRead.ids))
    => /\ lastRead.queries = 0
       /\ lastRead.threw = "none"
       /\ lastRead.rows = <<>>

C11_Witness ==
    /\ lastRead.op = "findByIds"
    /\ lastRead.ids = JsNull
    /\ lastRead.rows = <<>>
    /\ lastRead.queries = 0
    /\ Len(store) = MaxRows

\* the cosine of the angle between a stored vector and the query vector
Cosine(a, q) == Frac(Dot(a, q), Norm(a) * Norm(q))

FracEq(x, y) == x.num * y.den = y.num * x.den

\* C12: findBySimilarity returns at most `limit` products, each with
\* similarity = 1 - distance, in non-increasing similarity order, and no stored
\* product left out of the result has a strictly higher similarity than a
\* returned one.
C12_NearestFirstUpToLimit ==
    (lastRead.op = "findBySimilarity" /\ lastRead.threw = "none")
    => LET rows == lastRead.rows
           q == lastRead.embedding
           returned == {rows[k].shopifyId : k \in DOMAIN rows}
       IN /\ Len(rows) <= lastRead.limit
          /\ Cardinality(returned) = Len(rows)
          /\ \A k \in DOMAIN rows :
               \E r \in DOMAIN store :
                  /\ store[r].shopifyId = rows[k].shopifyId
                  /\ FracEq(rows[k].similarity, Cosine(store[r].embedding, q))
          /\ \A a, b \in DOMAIN rows :
               a < b => FracLeq(rows[b].similarity, rows[a].similarity)
          /\ \A r \in DOMAIN store :
               store[r].shopifyId \notin returned
               => \A k \in DOMAIN rows :
                     FracLeq(Cosine(store[r].embedding, q), rows[k].similarity)

C12_Witness ==
    /\ lastRead.op = "findBySimilarity"
    /\ lastRead.threw = "none"
    /\ lastRead.limit = 2
    /\ Len(lastRead.rows) = 2
    /\ Len(store) = 3
    /\ ~FracLeq(lastRead.rows[1].similarity, lastRead.rows[2].similarity)
    /\ store[1].shopifyId \notin {lastRead.rows[1].shopifyId,
                                   lastRead.rows[2].shopifyId}
    /\ ~FracLeq(lastRead.rows[2].similarity,
                Cosine(store[1].embedding, lastRead.embedding))

-----------------------------------------------------------------------------
(* Properties of the paginated fetch *)

\* C13: fetchAllProducts requests a page only while the last page reported
\* hasNextPage = true and fewer than maxProducts products have been
\* accumulated, so it stops at the first page that reports hasNextPage = false,
\* and it never returns more than maxProducts products.
C13_PagesWhileMoreAndBelowCeiling ==
    [][/\ pagesRequested' # pagesRequested
          => /\ pagesRequested' = pagesRequested + 1
             /\ hasNextPage
             /\ Len(allProducts) < maxProducts
       /\ fPc' = "returned"
          => /\ Len(fetched') <= maxProducts'
             /\ fetched' = SubSeq(allProducts', 1, Len(fetched'))
             /\ (Len(fetched') < maxProducts' => fetched' = allProducts')]_vars

C13_Witness ==
    /\ fPc = "returned"
    /\ pagesRequested >= 2
    /\ hasNextPage
    /\ Len(allProducts) > maxProducts
    /\ Len(fetched) = maxProducts
    /\ maxProducts > 0

-----------------------------------------------------------------------------
(* Properties of the product search *)

\* C14: searchProductsBySimilarity fails with the embedding error
\* (ErrorResponseException) whenever the query-embedding call fails, whatever
\* the underlying error is, and with the store error ('Failed to search
\* products') whenever the similarity query fails; when the embedding call
\* fails no store query is issued.
C14_EmbeddingAndStoreErrorsKeptApart ==
    lastSearch.serviceCalls = 1
    => /\ lastSearch.embedError # NoError
          => /\ lastSearch.thrown.type = "ErrorResponseException"
             /\ lastSearch.storeQueries = 0
       /\ lastSearch.storeError # NoError
          => /\ lastSearch.thrown.type = "HttpException"
             /\ lastSearch.thrown.message = "Failed to search products"

\* C17: the product search endpoint rejects every limit below 1 or above 100
\* (0 included) with a Bad Request, and for a rejected limit
\* searchProductsBySimilarity is never called.
C17_LimitOutsideRangeIsRejected ==
    (/\ lastSearch.op = "searchProducts"
     /\ lastSearch.limitArg.kind = "number"
     /\ (lastSearch.limitArg.val < 1 \/ lastSearch.limitArg.val > 100))
    => /\ lastSearch.thrown.type = "BadRequestException"
       /\ lastSearch.serviceCalls = 0

-----------------------------------------------------------------------------
(* Properties of the recommendation service *)

\* C15: generateRecommendation throws ProductNotFoundException exactly when
\* the similarity search returns no results or the id lookup returns no
\* products; for any failure of the search, the id lookup or the strategy it
\* throws an error that is not ProductNotFoundException; and the strategy is
\* invoked only after both lookups returned a non-empty list.
C15_NotFoundOnlyForEmptyLookups ==
    /\ rec.pc \in {"threw", "returned"}
       => /\ (rec.thrown.type = "ProductNotFoundException")
             = \/ rec.searchEnd = "returned" /\ rec.searchIds = <<>>
               \/ rec.lookupEnd = "returned" /\ rec.lookupProducts = <<>>
          /\ "threw" \in {rec.searchEnd, rec.lookupEnd, rec.strategyEnd}
             => rec.thrown.type \notin {"none", "ProductNotFoundException"}
          /\ (rec.pc = "threw") = (rec.thrown # NoThrow)
    /\ rec.strategyCalls > 0
       => /\ rec.searchEnd = "returned" /\ rec.searchIds # <<>>
          /\ rec.lookupEnd = "returned" /\ rec.lookupProducts # <<>>

C15_Witness ==
    /\ rec.pc = "threw"
    /\ rec.thrown.type = "ProductNotFoundException"
    /\ Len(rec.searchIds) = 2
    /\ rec.lookupEnd = "returned"
    /\ rec.lookupProducts = <<>>
    /\ rec.strategyCalls = 0

-----------------------------------------------------------------------------
(* Properties of the API key guard *)

\* the request carries `key` in a place the guard reads
Presents(headers, key) ==
    \/ headers.xApiKey = JsString(key)
    \/ IsArray(headers.xApiKey) /\ Contains(headers.xApiKey.val, key)
    \/ headers.authorization = BearerPrefix \o key

\* C18: canActivate grants access only when an API_KEY is configured and the
\* key extracted from the request equals it; with no configured key, no
\* presented key or a mismatching key it throws UnauthorizedException (401), so
\* no request is admitted without presenting the configured key.
C18_AdmittedOnlyWithConfiguredKey ==
    lastGuard.op = "canActivate"
    => LET key == lastGuard.validApiKey
           headers == lastGuard.headers
           configured == key \in ApiKeys
       IN /\ lastGuard.admitted
             <=> (configured /\ ExtractApiKey(headers) = key)
          /\ lastGuard.admitted => Presents(headers, key)
          /\ ~lastGuard.admitted
             => /\ lastGuard.threw.type = "UnauthorizedException"
                /\ lastGuard.threw.status = 401
          /\ ~configured => ~lastGuard.admitted
          /\ (headers.xApiKey = JsUndefined /\ headers.authorization = Undef)
             => ~lastGuard.admitted
          /\ (configured /\ ~Presents(headers, key)) => ~lastGuard.admitted

C18_Witness ==
    /\ lastGuard.op = "canActivate"
    /\ lastGuard.validApiKey \in ApiKeys
    /\ ~lastGuard.admitted
    /\ lastGuard.threw = Unauthorized("Invalid or missing API key")
    /\ lastGuard.headers.xApiKey = JsUndefined
    /\ StartsWith(lastGuard.headers.authorization, BearerPrefix)
    /\ Len(lastGuard.headers.authorization) > Len(BearerPrefix)

-----------------------------------------------------------------------------
(* Properties of the base filter *)

SameIgnoringCase(a, b) == ToLowerCase(a) = ToLowerCase(b)

\* the product's tags hold `tag`, case-insensitively
HasTag(product, tag) ==
    \E k \in DOMAIN product.tags : SameIgnoringCase(product.tags[k], tag)

\* the product satisfies every criterion the filter specifies
Satisfies(product, filter) ==
    LET category == IF product.category = Null THEN EmptyStr
                    ELSE product.category
        c == filter.category
        t == filter.tags
    IN /\ (c.present /\ c.equals # Undef) => SameIgnoringCase(category, c.equals)
       /\ (c.present /\ c.contains # Undef)
          => Includes(ToLowerCase(category), ToLowerCase(c.contains))
       /\ (c.present /\ c.in.defined)
          => \E k \in DOMAIN c.in.items : SameIgnoringCase(category, c.in.items[k])
       /\ (t.present /\ t.hasAny.defined)
          => \E k \in DOMAIN t.hasAny.items : HasTag(product, t.hasAny.items[k])
       /\ (t.present /\ t.hasAll.defined)
          => \A k \in DOMAIN t.hasAll.items : HasTag(product, t.hasAll.items[k])
       /\ (t.present /\ t.excludes.defined)
          => \A k \in DOMAIN t.excludes.items :
                ~HasTag(product, t.excludes.items[k])

-----------------------------------------------------------------------------
(* Properties of an interrupted run *)

OrEmptyString(s) == IF s = Null THEN EmptyStr ELSE s

\* the row a product's upsert leaves: every field the product's, the vector
\* the one computed for it
CompleteRow(product) ==
    [shopifyId   |-> product.shopifyId,
     title       |-> product.title,
     description |-> product.description,
     tags        |-> product.tags,
     category    |-> OrEmptyString(product.category),
     image       |-> OrEmptyString(product.image),
     price       |-> OrEmptyString(product.price),
     embedding   |-> EmbeddingOf(product)]

-----------------------------------------------------------------------------
(* Algebra of the upsert *)

\* the rows of a table, whatever their physical order
Content(table) == {table[k] : k \in DOMAIN table}

\* C25: upserts of products with different shopifyIds commute (either order
\* gives the same store content), repeating an upsert with the same product
\* and embedding leaves the product fields and embedding of the store
\* unchanged, and so the final store content of a failure-free ingestion does
\* not depend on the order the products are handled in when ids are distinct.
C25_UpsertsCommuteAndRepeat ==
    /\ (lastPair.op = "upserts"
        /\ lastPair.x[1].shopifyId # lastPair.y[1].shopifyId)
       => Content(lastPair.first) = Content(lastPair.second)
    /\ lastPair.op = "upserts" => lastPair.twice = lastPair.once
    /\ lastPair.op = "runs" => Content(lastPair.first) = Content(lastPair.second)

C25_Witness ==
    /\ lastPair.op = "upserts"
    /\ lastPair.x[1].shopifyId # lastPair.y[1].shopifyId
    /\ Len(lastPair.table) = 1
    /\ lastPair.table[1].shopifyId = lastPair.x[1].shopifyId
    /\ lastPair.table[1].title # lastPair.x[1].title
    /\ lastPair.first # lastPair.table
    /\ Len(lastPair.first) = 2
    /\ lastPair.twice = lastPair.once

\* a list that generateEmbeddings may hand back: arrays only
OnlyArrays(embeddings) ==
    \A k \in 1..Len(embeddings) : IsArray(embeddings[k])

\* some element of response.data carries a null, a missing or a non-array
\* embedding
SomeElementUnusable(data) ==
    \E k \in 1..Len(data) :
        data[k].embedding.kind \in {"null", "undefined", "object"}

\* C26: generateEmbeddings returns one vector per input text, each at the
\* position of its text; it rejects with ErrorResponseException whenever some
\* returned element is null or not an array, and never returns a list that
\* holds such an element.
C26_OneVectorPerTextOrRejected ==
    lastEmbed # NoEmbedBatch =>
        /\ SomeElementUnusable(lastEmbed.outcome.data)
             => lastEmbed.thrown.type = "ErrorResponseException"
        /\ lastEmbed.thrown = NoThrow
             => /\ OnlyArrays(lastEmbed.returned)
                /\ Len(lastEmbed.returned) = lastEmbed.texts
                /\ \A k \in 1..lastEmbed.texts :
                     lastEmbed.returned[k] = JsArray(VectorOfText(k))

\* C26 without the count: an unusable element always rejects the call with
\* ErrorResponseException, and a returned list holds arrays only, each the
\* embedding of the response element at its position.
C26_InvalidElementRejectsTheCall ==
    lastEmbed # NoEmbedBatch =>
        /\ SomeElementUnusable(lastEmbed.outcome.data)
             => lastEmbed.thrown.type = "ErrorResponseException"
        /\ lastEmbed.thrown # NoThrow
             => /\ lastEmbed.thrown.type = "ErrorResponseException"
                /\ lastEmbed.returned = <<>>
        /\ lastEmbed.thrown = NoThrow
             => /\ OnlyArrays(lastEmbed.returned)
                /\ Len(lastEmbed.returned) = Len(lastEmbed.outcome.data)
                /\ \A k \in 1..Len(lastEmbed.returned) :
                     lastEmbed.returned[k] = lastEmbed.outcome.data[k].embedding

\* two texts sent, a response with one usable element, a list of one returned
C26_ShortResponseReturned ==
    /\ lastEmbed.texts = 2
    /\ lastEmbed.thrown = NoThrow
    /\ Len(lastEmbed.returned) = 1

\* a response whose second element is null-valued is rejected
C26_NullElementRejected ==
    /\ lastEmbed.texts = 2
    /\ Len(lastEmbed.outcome.data) = 2
    /\ lastEmbed.outcome.data[1].embedding = JsArray(VectorOfText(1))
    /\ lastEmbed.outcome.data[2].embedding = JsNull
    /\ lastEmbed.thrown # NoThrow

-----------------------------------------------------------------------------
(* Properties of the haircare strategy *)

\* the places of the returned routine that hold the k-th input product
PlacesOf(k) ==
    {<<s, m>> \in (DOMAIN recommendation.routine) \X (1..Len(sInput)) :
        /\ m \in DOMAIN recommendation.routine[s].products
        /\ recommendation.routine[s].products[m] = sInput[k]}

\* C7: generateRecommendation places every input product in exactly one of the
\* three steps, whatever its category.
C7_EveryProductInExactlyOneStep ==
    sPc = "returned"
    => \A k \in DOMAIN sInput : Cardinality(PlacesOf(k)) = 1

CategoryHas(product, word) ==
    product.category # Null /\ Includes(ToLowerCase(product.category), word)

\* C19: for the haircare strategy, 'Cleansing' / 'Conditioning' contain
\* exactly the input products whose category contains 'shampoo' /
\* 'conditioner' case-insensitively, 'Treatment & Styling' contains exactly the
\* input products that are in neither of those steps, and so the step sizes
\* for a shampoos, b conditioners and c other products are [a, b, c].
C19_StepsSplitByCategory ==
    sPc = "returned"
    => LET steps == recommendation.routine
           IsShampoo(p) == CategoryHas(p, ShampooLit)
           IsConditioner(p) == CategoryHas(p, ConditionerLit)
           In(s, p) == Contains(steps[s].products, p)
           IsOther(p) == ~In(1, p) /\ ~In(2, p)
       IN /\ <<steps[1].name, steps[2].name, steps[3].name>>
               = <<"Cleansing", "Conditioning", "Treatment & Styling">>
          /\ steps[1].products = SelectSeq(sInput, IsShampoo)
          /\ steps[2].products = SelectSeq(sInput, IsConditioner)
          /\ steps[3].products = SelectSeq(sInput, IsOther)
          /\ Len(steps[1].products)
               = Cardinality({k \in DOMAIN sInput : IsShampoo(sInput[k])})
          /\ Len(steps[2].products)
               = Cardinality({k \in DOMAIN sInput : IsConditioner(sInput[k])})
          /\ Len(steps[3].products)
               = Cardinality({k \in DOMAIN sInput :
                                 ~IsShampoo(sInput[k])
                                 /\ ~IsConditioner(sInput[k])})

C19_Witness ==
    /\ sPc = "returned"
    /\ Len(sInput) = 3
    /\ sInput[1].category = <<"S", "H", "A", "M", "P", "O", "O">>
    /\ sInput[2].category = Null
    /\ sInput[3].category = Conditioner
    /\ recommendation.routine[1].products = <<sInput[1]>>
    /\ recommendation.routine[2].products = <<sInput[3]>>
    /\ recommendation.routine[3].products = <<sInput[2]>>

\* C8: a step whose text-generation call throws gets the description
\* 'Complete the {step name} step using the recommended products.', the other
\* steps keep their generated text, and the call returns the success message
\* with all three steps.
C8_FallbackOnGenerationFailure ==
    sPc = "returned"
    => /\ recommendation.message = "Recommendation generated successfully"
       /\ Len(recommendation.routine) = 3
       /\ Len(aiLog) = 3
       /\ \A s \in 1..3 :
            LET step == recommendation.routine[s]
            IN /\ step.name = HairCareStepConfigurations[s].name
               /\ step.description
                    = IF aiLog[s].threw
                      THEN <<"Complete the ", step.name,
                             " step using the recommended products.">>
                      ELSE aiLog[s].content

C8_Witness ==
    /\ sPc = "returned"
    /\ aiLog[2].threw
    /\ ~aiLog[1].threw
    /\ recommendation.routine[2].description
         = <<"Complete the ", "Conditioning",
             " step using the recommended products.">>
    /\ recommendation.routine[1].description = <<"o", "k">>

\* chat.completions.create resolved with a content that is text once trimmed
HasGeneratedText(raw) ==
    /\ ~raw.threw
    /\ raw.content # Undef
    /\ Trim(raw.content) # EmptyStr

\* C27: whatever the text-generation call does for a step (text, empty or
\* blank text, an error), the step returned by
\* HairCareStrategy.generateRecommendation has a non-empty description: the
\* trimmed generated text when there is one, the fixed fallback sentence
\* otherwise; and the adapter never returns empty content, it throws.
C27_EveryStepHasADescription ==
    sPc = "returned"
    => \A s \in DOMAIN recommendation.routine :
          LET step == recommendation.routine[s]
              raw == aiLog[s].raw
          IN /\ step.description # EmptyStr
             /\ step.description # Undef
             /\ step.description
                  = IF HasGeneratedText(raw)
                    THEN Trim(raw.content)
                    ELSE FallbackDescription(step.name)
             /\ aiLog[s].threw \/ StrTruthy(aiLog[s].content)
             /\ aiLog[s].threw = ~HasGeneratedText(raw)

\* one step's call resolved with blanks, one with padded text, one threw
C27_Witness ==
    /\ sPc = "returned"
    /\ aiLog[1].raw = [threw |-> FALSE, content |-> <<" ", " ">>]
    /\ aiLog[2].raw = [threw |-> FALSE, content |-> <<" ", "o", "k", " ">>]
    /\ aiLog[3].raw.threw
    /\ recommendation.routine[1].description = FallbackDescription("Cleansing")
    /\ recommendation.routine[2].description = <<"o", "k">>

\* the upserts that have resolved so far, of both runs
ResolvedUpserts ==
    {overlap.snapshots[at[1]][at[2]] :
        at \in {q \in (1..2) \X (1..MaxIds) :
                  q[2] <= overlap.written[q[1]] /\ q \notin overlap.failed}}

\* the row's title, description, tags and embedding are those of this upsert
WrittenBy(row, upsert) ==
    /\ row.shopifyId = upsert.product.shopifyId
    /\ row.title = upsert.product.title
    /\ row.description = upsert.product.description
    /\ row.tags = upsert.product.tags
    /\ row.embedding = upsert.embedding

\* C30: while two ingestion runs over possibly different snapshots of the
\* catalog write to the table with their upserts interleaved in any way, the
\* table never holds two rows with one shopifyId, and the title, description,
\* tags and embedding of each row all come from a single upsert (or the row is
\* as the runs found it), never partly from one run and partly from the other.
C30_OverlappingRunsLeaveWholeRows ==
    overlap.started
    => /\ \A a, b \in DOMAIN store :
            a # b => store[a].shopifyId # store[b].shopifyId
       /\ \A k \in DOMAIN store :
            IF \E u \in ResolvedUpserts : u.product.shopifyId = store[k].shopifyId
            THEN \E u \in ResolvedUpserts : WrittenBy(store[k], u)
            ELSE \E n \in DOMAIN overlap.found : store[k] = overlap.found[n]
       /\ \A u \in ResolvedUpserts :
            \E k \in DOMAIN store : store[k].shopifyId = u.product.shopifyId

\* both runs have written the same product, at different versions, over a row
\* that was there before; the first run's upsert of it resolved last
C30_Witness ==
    /\ overlap.started
    /\ overlap.failed = {}
    /\ overlap.written = <<MaxIds, MaxIds>>
    /\ overlap.snapshots[2][1].embedding = SnapshotVector(2)
    /\ overlap.snapshots[2][1].product.shopifyId = 1
    /\ overlap.snapshots[1][MaxIds].product.shopifyId = 1
    /\ \E n \in DOMAIN overlap.found : overlap.found[n].shopifyId = 1
    /\ \E k \in DOMAIN store :
         /\ store[k].shopifyId = 1
         /\ store[k].embedding = SnapshotVector(1)
         /\ store[k].title = <<"Title", 1>>

====
